---- MODULE Spec2Model ----
(***************************************************************************)
(* Model of the inference aggregation engine of crop-predict-buddy         *)
(* (src/ml_training/model_predictor.py, class AgriculturalPredictor).      *)
(*                                                                         *)
(* Numbers.  Every Python float of the program is kept in fixed point, in  *)
(* hundredths: 6.5 is 650, 1000 litres is 100000.  A value returned by a   *)
(* regressor is a record [kind, v]: kind "fin" with v in hundredths, or    *)
(* "nan", "posinf", "neginf" (v = 0), because the regressors are opaque    *)
(* objects unpickled from the artifact directory.                          *)
(***************************************************************************)
EXTENDS Integers, Sequences, FiniteSets, TLC

VARIABLES
    fs,              \* artifact directory: file name -> "missing" | "corrupt" | "ok"
    fallback_mode,   \* self.fallback_mode
    metadata,        \* self.metadata
    models,          \* self.models
    scalers,         \* self.scalers: the set of targets whose scaler is loaded
    label_encoders,  \* self.label_encoders
    reads,           \* file name -> number of times the file was read
    last             \* the last call made on the engine and what it returned

vars == <<fs, fallback_mode, metadata, models, scalers, label_encoders, reads, last>>

engine == <<fallback_mode, metadata, models, scalers, label_encoders>>

----------------------------------------------------------------------------
(* Bounds *)

\* calls stop once a file they would read has been read this often
MaxReads == 2

\* the longest inputs array of a batch request
MaxBatch == 2

----------------------------------------------------------------------------
(* Fixed point *)

H(n) == n * 100

Abs(n) == IF n < 0 THEN -n ELSE n

Fin(v) == [kind |-> "fin", v |-> v]
NaN == [kind |-> "nan", v |-> 0]
PosInf == [kind |-> "posinf", v |-> 0]
NegInf == [kind |-> "neginf", v |-> 0]

IsFinite(x) == x.kind = "fin"

\* x > c, for a float x and a finite c in hundredths (False on NaN)
Gt(x, c) ==
    CASE x.kind = "fin" -> x.v > c
      [] x.kind = "posinf" -> TRUE
      [] OTHER -> FALSE

\* x < c
Lt(x, c) ==
    CASE x.kind = "fin" -> x.v < c
      [] x.kind = "neginf" -> TRUE
      [] OTHER -> FALSE

\* Python max(c, x): the first argument stays unless x > c
PyMax(c, x) == IF Gt(x, c) THEN x ELSE Fin(c)

\* Python min(c, x): the first argument stays unless x < c
PyMin(c, x) == IF Lt(x, c) THEN x ELSE Fin(c)

\* round half to even of v hundredths to a multiple of unit hundredths
RoundHalfEven(v, unit) ==
    LET q == v \div unit
        r == v % unit
    IN  IF 2 * r < unit THEN q * unit
        ELSE IF 2 * r > unit THEN (q + 1) * unit
        ELSE IF q % 2 = 0 THEN q * unit ELSE (q + 1) * unit

Raised == [kind |-> "raise", v |-> 0]

\* round(x): an int, or ValueError / OverflowError on NaN / infinity
PyRound(x) == IF IsFinite(x) THEN Fin(RoundHalfEven(x.v, 100)) ELSE Raised

\* round(x, 1): a float, non-finite values pass through
PyRound1(x) == IF IsFinite(x) THEN Fin(RoundHalfEven(x.v, 10)) ELSE x

----------------------------------------------------------------------------
(* Artifact directory *)

Targets == <<"irrigation", "nitrogen_fertilizer", "phosphorus_fertilizer",
             "potassium_fertilizer", "yield", "yield_increase">>

TargetSet == {Targets[i] : i \in 1..Len(Targets)}

MetadataFile == "model_metadata.json"

ScalerFile(t) == "scaler_" \o t \o ".pkl"

ModelFile(t) == "rf_" \o t \o "_model.pkl"

ScalerFiles == {ScalerFile(t) : t \in TargetSet}

ModelFiles == {ModelFile(t) : t \in TargetSet}

Files == {MetadataFile} \cup ScalerFiles \cup ModelFiles

FileStates == {"missing", "corrupt", "ok"}

\* os.path.exists
Exists(dir, f) == dir[f] # "missing"

----------------------------------------------------------------------------
(* Engine construction *)

DefaultCrops == <<"rice", "wheat", "maize", "cotton", "sugarcane", "tomato",
                  "potato", "soybean", "barley", "sorghum", "groundnut", "mustard">>

\* LabelEncoder.classes_ of the crops of the training table: sorted
TrainedCrops == <<"barley", "cotton", "maize", "potato", "rice", "sorghum",
                  "soybean", "sugarcane", "tomato", "wheat">>

feature_columns == <<"soil_ph", "nitrogen_ppm", "phosphorus_ppm", "potassium_ppm",
                     "organic_matter_pct", "temperature_c", "rainfall_mm",
                     "humidity_pct", "sunlight_hours", "wind_speed_kmh",
                     "pressure_hpa", "growing_days", "planting_month",
                     "crop_type_encoded", "ph_stress", "nutrient_balance",
                     "weather_stress">>

\* the record save_model_metadata writes
TrainedMetadata ==
    [feature_columns |-> feature_columns, crop_type |-> TrainedCrops]

FallbackMetadata == [feature_columns |-> <<>>, crop_type |-> DefaultCrops]

\* a metadata file that json.load parses, but not to an object: [] for example
MalformedMetadata == [json |-> "array"]

\* _load_metadata: <<fallback_mode, metadata>>; a file in state "malformed"
\* parses, so it is returned as it is
LoadMetadataOf(dir) ==
    CASE dir[MetadataFile] = "ok" -> <<FALSE, TrainedMetadata>>
      [] dir[MetadataFile] = "malformed" -> <<FALSE, MalformedMetadata>>
      [] OTHER -> <<TRUE, FallbackMetadata>>

\* self.metadata.get('label_encoders', {}).get('crop_type', [...]): the list,
\* or the AttributeError of a value without get
CropTypeOf(md) ==
    IF "json" \in DOMAIN md THEN [exc |-> "AttributeError", crop_type |-> <<>>]
    ELSE IF "crop_type" \in DOMAIN md THEN [exc |-> "none", crop_type |-> md.crop_type]
    ELSE [exc |-> "none", crop_type |-> DefaultCrops]

\* _load_models: the scalers that load
LoadScalersOf(dir) == {t \in TargetSet : dir[ScalerFile(t)] = "ok"}

\* the files __init__ reads
InitReads(dir) ==
    [f \in Files |-> IF f \in {MetadataFile} \cup ScalerFiles /\ Exists(dir, f)
                     THEN 1 ELSE 0]

NoCall ==
    [op |-> "none", input |-> <<>>, ret |-> <<>>, caught |-> "none",
     loaded |-> <<>>, invoked |-> <<>>]

\* AgriculturalPredictor(models_dir) on the directory dir
Construct(dir) ==
    /\ fs = dir
    /\ fallback_mode = LoadMetadataOf(dir)[1]
    /\ metadata = LoadMetadataOf(dir)[2]
    /\ models = {}
    /\ scalers = LoadScalersOf(dir)
    /\ label_encoders = [crop_type |-> LoadMetadataOf(dir)[2].crop_type]
    /\ reads = InitReads(dir)
    /\ last = NoCall

----------------------------------------------------------------------------
(* Inputs *)

SoilFields == {"ph", "nitrogen", "phosphorus", "potassium", "organicMatter"}

WeatherFields == {"temperature", "rainfall", "humidity", "sunlightHours"}

MkInput(ph, n, p, k, om, t, rain, hum, sun, crop) ==
    [soil |-> [ph |-> ph, nitrogen |-> n, phosphorus |-> p, potassium |-> k,
               organicMatter |-> om],
     weather |-> [temperature |-> t, rainfall |-> rain, humidity |-> hum,
                  sunlightHours |-> sun],
     cropType |-> crop]

\* sample_input of the module's example usage
sample_input ==
    MkInput(650, H(20), H(15), H(25), H(3), H(25), H(100), H(65), H(8), "rice")

\* all five soil fields, all four weather fields and cropType are present
WellFormed(input_data) ==
    /\ DOMAIN input_data = {"soil", "weather", "cropType"}
    /\ DOMAIN input_data.soil = SoilFields
    /\ DOMAIN input_data.weather = WeatherFields

\* the values drawn by np.random in one call of _prepare_features
Rnd(wind, pressure, month) == [wind |-> wind, pressure |-> pressure, month |-> month]

----------------------------------------------------------------------------
(* Feature vector *)

\* one component: the training column it stands for and its value num/den
Feat(col, num, den) == [col |-> col, num |-> num, den |-> den]

\* list.index(x)
IndexOf(list, x) == (CHOOSE i \in 1..Len(list) : list[i] = x /\ \A j \in 1..(i - 1) : list[j] # x) - 1

Contains(list, x) == \E i \in 1..Len(list) : list[i] = x

HasKeys(d, ks) == ks \subseteq DOMAIN d

KeyError == [exc |-> "KeyError", vec |-> <<>>]

\* every field _prepare_features subscripts is present
FeatureKeysPresent(input_data) ==
    /\ HasKeys(input_data, {"soil", "weather", "cropType"})
    /\ HasKeys(input_data.soil, SoilFields)
    /\ HasKeys(input_data.weather, WeatherFields)

\* features.extend([...]) of the soil parameters
SoilFeatures(soil) ==
    << Feat("soil_ph", soil.ph, 100),
       Feat("nitrogen_ppm", soil.nitrogen, 100),
       Feat("phosphorus_ppm", soil.phosphorus, 100),
       Feat("potassium_ppm", soil.potassium, 100),
       Feat("organic_matter_pct", soil.organicMatter, 100) >>

\* WeatherFeatures with rainfall and humidity in each other's place
WeatherFeaturesSwapped(weather) ==
    << Feat("temperature_c", weather.temperature, 100),
       Feat("humidity_pct", weather.humidity, 100),
       Feat("rainfall_mm", weather.rainfall, 100),
       Feat("sunlight_hours", weather.sunlightHours, 100) >>

\* features.extend([...]) of the weather parameters
WeatherFeatures(weather) ==
    << Feat("temperature_c", weather.temperature, 100),
       Feat("rainfall_mm", weather.rainfall, 100),
       Feat("humidity_pct", weather.humidity, 100),
       Feat("sunlight_hours", weather.sunlightHours, 100) >>

\* the simulated weather and growing parameters
SimulatedFeatures(rnd) ==
    << Feat("wind_speed_kmh", rnd.wind, 100),
       Feat("pressure_hpa", rnd.pressure, 100),
       Feat("growing_days", H(120), 100),
       Feat("planting_month", H(rnd.month), 100) >>

\* CropEncoded counting positions from 1
CropEncodedOneBased(crop_type, le) ==
    IF Contains(le.crop_type, crop_type) THEN IndexOf(le.crop_type, crop_type) + 1 ELSE 0

\* the crop type encoding
CropEncoded(crop_type, le) ==
    IF Contains(le.crop_type, crop_type) THEN IndexOf(le.crop_type, crop_type) ELSE 0

\* ph_stress, nutrient_balance, weather_stress as exact fractions
DerivedFeatures(soil, weather) ==
    << Feat("ph_stress", Abs(soil.ph - 650), 650),
       Feat("nutrient_balance",
            18 * soil.nitrogen + 25 * soil.phosphorus + 15 * soil.potassium, 135000),
       Feat("weather_stress", Abs(weather.temperature - 2500), 2500) >>

\* _prepare_features: the feature vector, or the KeyError of a missing field
prepare_features(input_data, le, rnd) ==
    IF ~ FeatureKeysPresent(input_data) THEN KeyError
    ELSE [exc |-> "none",
          vec |-> SoilFeatures(input_data.soil)
                  \o WeatherFeatures(input_data.weather)
                  \o SimulatedFeatures(rnd)
                  \o <<Feat("crop_type_encoded",
                            H(CropEncoded(input_data.cropType, le)), 100)>>
                  \o DerivedFeatures(input_data.soil, input_data.weather)]

----------------------------------------------------------------------------
(* Per-target predictors *)

\* one run of a predictor: what it returns, the exception its except branch
\* caught ("none" when the try branch returned), the files it loads with
\* joblib.load (in order), and the regressor invocations it makes
Run(ret, caught, loaded, invoked) ==
    [ret |-> ret, caught |-> caught, loaded |-> loaded, invoked |-> invoked]

\* Invocation with the vector scaled by the target's own scaler
InvocationOwnScaler(t, scaled, out) == [target |-> t, scaled |-> t \in scalers, out |-> out]

\* one regressor invocation: the target, whether the vector was scaled,
\* and what predict(...)[0] gave (Raised when predict raises)
Invocation(t, scaled, out) == [target |-> t, scaled |-> scaled, out |-> out]

\* IrrigationFallback with the efficiency of the try branch
IrrigationFallbackDrip90 ==
    [litersPerAcre |-> H(1000), frequency |-> "Every 2-3 days",
     method |-> "Drip Irrigation", efficiency |-> H(90),
     criticalPeriods |-> <<"Flowering stage">>]

\* the except branch of predict_irrigation
IrrigationFallback ==
    [litersPerAcre |-> H(1000), frequency |-> "Every 2-3 days",
     method |-> "Drip Irrigation", efficiency |-> H(85),
     criticalPeriods |-> <<"Flowering stage">>]

\* IrrigationRecord without the floor of 100
IrrigationRecordNoFloor(x) ==
    LET method == IF Gt(x, H(2000)) THEN "Sprinkler System" ELSE "Drip Irrigation"
        frequency == IF Gt(x, H(2000)) THEN "Daily"
                     ELSE IF Gt(x, H(1000)) THEN "Every 2-3 days"
                     ELSE "Weekly"
    IN  [litersPerAcre |-> PyRound(x).v,
         frequency |-> frequency,
         method |-> method,
         efficiency |-> IF method = "Drip Irrigation" THEN H(90) ELSE H(75),
         criticalPeriods |-> <<"Flowering stage", "Early grain filling">>]

\* the try branch of predict_irrigation after model.predict gave a finite x
IrrigationRecord(x) ==
    LET method == IF Gt(x, H(2000)) THEN "Sprinkler System" ELSE "Drip Irrigation"
        frequency == IF Gt(x, H(2000)) THEN "Daily"
                     ELSE IF Gt(x, H(1000)) THEN "Every 2-3 days"
                     ELSE "Weekly"
        r == PyRound(x)
    IN  [litersPerAcre |-> IF r.v > H(100) THEN r.v ELSE H(100),
         frequency |-> frequency,
         method |-> method,
         efficiency |-> IF method = "Drip Irrigation" THEN H(90) ELSE H(75),
         criticalPeriods |-> <<"Flowering stage", "Early grain filling">>]

\* predict_irrigation; o is what the scaler and the regressor do when called
predict_irrigation(input_data, dir, scl, le, rnd, o) ==
    LET features == prepare_features(input_data, le, rnd)
        file == ModelFile("irrigation")
        scaled == "irrigation" \in scl
    IN  IF features.exc # "none"
        THEN Run(IrrigationFallback, features.exc, <<>>, <<>>)
        ELSE IF dir[file] # "ok"
        THEN Run(IrrigationFallback, "LoadError", <<file>>, <<>>)
        ELSE IF scaled /\ o.scaler = "raise"
        THEN Run(IrrigationFallback, "ScalerError", <<file>>, <<>>)
        ELSE IF o.irrigation = Raised
        THEN Run(IrrigationFallback, "PredictError", <<file>>,
                 <<Invocation("irrigation", scaled, Raised)>>)
        ELSE IF PyRound(o.irrigation) = Raised
        THEN Run(IrrigationFallback, "RoundError", <<file>>,
                 <<Invocation("irrigation", scaled, o.irrigation)>>)
        ELSE Run(IrrigationRecord(o.irrigation), "none", <<file>>,
                 <<Invocation("irrigation", scaled, o.irrigation)>>)

\* FertilizerFallback that remembers how often the nitrogen regressor was read
FertilizerFallbackCounting ==
    [nitrogen |-> H(100) + H(reads[ModelFile("nitrogen_fertilizer")]),
     phosphorus |-> H(50), potassium |-> H(60),
     applicationSchedule |-> <<"Split application recommended">>,
     efficiency |-> H(80)]

\* the except branch of predict_fertilizer
FertilizerFallback ==
    [nitrogen |-> H(100), phosphorus |-> H(50), potassium |-> H(60),
     applicationSchedule |-> <<"Split application recommended">>,
     efficiency |-> H(80)]

\* Floor0Round without the floor of 0
RoundNoFloor(x) == PyRound(x).v

\* max(0, round(x)) for a finite x
Floor0Round(x) == IF PyRound(x).v > 0 THEN PyRound(x).v ELSE 0

\* the try branch of predict_fertilizer once the three predictions are rounded
FertilizerRecord(n, p, k) ==
    [nitrogen |-> Floor0Round(n), phosphorus |-> Floor0Round(p),
     potassium |-> Floor0Round(k),
     applicationSchedule |-> <<"25% at planting", "50% at vegetative stage",
                               "25% at flowering">>,
     efficiency |-> H(85)]

\* the files joblib.load is called on, in order, up to the first that fails
LoadedUpTo(dir, files) ==
    LET bad == {i \in 1..Len(files) : dir[files[i]] # "ok"}
        stop == IF bad = {} THEN Len(files)
                ELSE CHOOSE i \in bad : \A j \in bad : i <= j
    IN  SubSeq(files, 1, stop)

\* AllLoad that looks at the first file only
AllLoadFirstOnly(dir, files) == dir[files[1]] = "ok"

AllLoad(dir, files) == \A i \in 1..Len(files) : dir[files[i]] = "ok"

\* predict(...)[0] followed by round(): it fails when predict raises or the
\* value is not finite
RoundFails(x) == x = Raised \/ PyRound(x) = Raised

FailureOf(x) == IF x = Raised THEN "PredictError" ELSE "RoundError"

\* the regressor files predict_fertilizer loads, in order
FertFiles ==
    <<ModelFile("nitrogen_fertilizer"), ModelFile("phosphorus_fertilizer"),
      ModelFile("potassium_fertilizer")>>

\* predict_fertilizer
predict_fertilizer(input_data, dir, scl, le, rnd, o) ==
    LET features == prepare_features(input_data, le, rnd)
        files == FertFiles
        loaded == LoadedUpTo(dir, files)
        scaled == "nitrogen_fertilizer" \in scl
        n == Invocation("nitrogen_fertilizer", scaled, o.nitrogen)
        p == Invocation("phosphorus_fertilizer", scaled, o.phosphorus)
        k == Invocation("potassium_fertilizer", scaled, o.potassium)
    IN  IF features.exc # "none"
        THEN Run(FertilizerFallback, features.exc, <<>>, <<>>)
        ELSE IF ~ AllLoad(dir, files)
        THEN Run(FertilizerFallback, "LoadError", loaded, <<>>)
        ELSE IF scaled /\ o.scaler = "raise"
        THEN Run(FertilizerFallback, "ScalerError", loaded, <<>>)
        ELSE IF RoundFails(o.nitrogen)
        THEN Run(FertilizerFallback, FailureOf(o.nitrogen), loaded, <<n>>)
        ELSE IF RoundFails(o.phosphorus)
        THEN Run(FertilizerFallback, FailureOf(o.phosphorus), loaded, <<n, p>>)
        ELSE IF RoundFails(o.potassium)
        THEN Run(FertilizerFallback, FailureOf(o.potassium), loaded, <<n, p, k>>)
        ELSE Run(FertilizerRecord(o.nitrogen, o.phosphorus, o.potassium), "none",
                 loaded, <<n, p, k>>)

\* YieldFallback without its limitingFactors
YieldFallbackNoFactors ==
    [expectedYield |-> Fin(350), yieldIncrease |-> H(15), confidence |-> H(70)]

\* the except branch of predict_yield
YieldFallback ==
    [expectedYield |-> Fin(350), yieldIncrease |-> H(15),
     limitingFactors |-> <<"Model prediction unavailable">>,
     confidence |-> H(70)]

\* Confidence with the pH and organic matter bonuses at their boundary values
ConfidenceClosedBounds(input_data) ==
    H(85)
    + (IF Abs(input_data.soil.ph - 650) <= 50 THEN H(5) ELSE 0)
    + (IF input_data.soil.organicMatter >= H(3) THEN H(3) ELSE 0)
    + (IF H(50) <= input_data.weather.rainfall /\ input_data.weather.rainfall <= H(200)
       THEN H(4) ELSE 0)

\* Confidence starting from 65 instead of 85
ConfidenceLowBase(input_data) ==
    H(65)
    + (IF Abs(input_data.soil.ph - 650) < 50 THEN H(5) ELSE 0)
    + (IF input_data.soil.organicMatter > H(3) THEN H(3) ELSE 0)
    + (IF H(50) <= input_data.weather.rainfall /\ input_data.weather.rainfall <= H(200)
       THEN H(4) ELSE 0)

\* confidence before the cap
Confidence(input_data) ==
    H(85)
    + (IF Abs(input_data.soil.ph - 650) < 50 THEN H(5) ELSE 0)
    + (IF input_data.soil.organicMatter > H(3) THEN H(3) ELSE 0)
    + (IF H(50) <= input_data.weather.rainfall /\ input_data.weather.rainfall <= H(200)
       THEN H(4) ELSE 0)

\* LimitingFactors that puts the water stress first
LimitingFactorsWaterFirst(input_data) ==
    (IF input_data.weather.rainfall < H(50) THEN <<"Water stress">> ELSE <<>>)
    \o (IF input_data.soil.ph < 550 \/ input_data.soil.ph > 800
        THEN <<"Soil pH imbalance">> ELSE <<>>)
    \o (IF input_data.soil.organicMatter < H(2) THEN <<"Low organic matter">> ELSE <<>>)
    \o (IF input_data.weather.temperature < H(10) \/ input_data.weather.temperature > H(35)
        THEN <<"Temperature stress">> ELSE <<>>)

LimitingFactors(input_data) ==
    (IF input_data.soil.ph < 550 \/ input_data.soil.ph > 800
     THEN <<"Soil pH imbalance">> ELSE <<>>)
    \o (IF input_data.soil.organicMatter < H(2) THEN <<"Low organic matter">> ELSE <<>>)
    \o (IF input_data.weather.temperature < H(10) \/ input_data.weather.temperature > H(35)
        THEN <<"Temperature stress">> ELSE <<>>)
    \o (IF input_data.weather.rainfall < H(50) THEN <<"Water stress">> ELSE <<>>)

\* ClampIncrease without the cap of 50
ClampIncreaseNoCap(inc) == PyMax(0, inc)

\* max(0, min(50, x)) of the yield-increase prediction
ClampIncrease(inc) == PyMax(0, PyMin(H(50), inc))

\* the try branch of predict_yield after the two predictions y and inc
YieldRecord(input_data, y, inc) ==
    LET expected_yield == PyMax(0, y)
        yield_increase == ClampIncrease(inc)
        confidence == Confidence(input_data)
        limiting_factors == LimitingFactors(input_data)
    IN  [expectedYield |-> PyRound1(expected_yield),
         yieldIncrease |-> PyRound(yield_increase).v,
         limitingFactors |-> IF limiting_factors # <<>> THEN limiting_factors
                             ELSE <<"No major limiting factors detected">>,
         confidence |-> IF confidence < H(98) THEN confidence ELSE H(98)]

\* the regressor files predict_yield loads, in order
YieldFiles == <<ModelFile("yield"), ModelFile("yield_increase")>>

\* predict_yield
predict_yield(input_data, dir, scl, le, rnd, o) ==
    LET features == prepare_features(input_data, le, rnd)
        files == YieldFiles
        loaded == LoadedUpTo(dir, files)
        scaled == "yield" \in scl
        y == Invocation("yield", scaled, o.yield)
        inc == Invocation("yield_increase", scaled, o.yield_increase)
    IN  IF features.exc # "none"
        THEN Run(YieldFallback, features.exc, <<>>, <<>>)
        ELSE IF ~ AllLoad(dir, files)
        THEN Run(YieldFallback, "LoadError", loaded, <<>>)
        ELSE IF scaled /\ o.scaler = "raise"
        THEN Run(YieldFallback, "ScalerError", loaded, <<>>)
        ELSE IF o.yield = Raised
        THEN Run(YieldFallback, "PredictError", loaded, <<y>>)
        ELSE IF o.yield_increase = Raised
        THEN Run(YieldFallback, "PredictError", loaded, <<y, inc>>)
        ELSE IF PyRound(ClampIncrease(o.yield_increase)) = Raised
        THEN Run(YieldFallback, "RoundError", loaded, <<y, inc>>)
        ELSE Run(YieldRecord(input_data, o.yield, o.yield_increase), "none",
                 loaded, <<y, inc>>)

----------------------------------------------------------------------------
(* Aggregator *)

sustainability_tips ==
    <<"Use drip irrigation to save up to 60% water compared to flood irrigation.",
      "Implement crop rotation with legumes to naturally fix nitrogen.",
      "Apply organic compost to improve soil structure and water retention.",
      "Use precision agriculture techniques with IoT sensors for optimal resource usage.",
      "Consider companion planting to naturally control pests and improve soil nutrients.",
      "Implement rainwater harvesting systems to reduce groundwater dependency.",
      "Use cover crops during off-seasons to prevent soil erosion.",
      "Apply fertilizers during optimal weather conditions to maximize uptake.">>

\* Clamp0To100 without the cap of 100
Clamp0NoCap(x) == IF x < 0 THEN 0 ELSE x

\* min(100, max(0, x)) on hundredths
Clamp0To100(x) == IF x < 0 THEN 0 ELSE IF x > H(100) THEN H(100) ELSE x

\* risk_factors with the confidence trigger below 90
risk_factorsBelow90(irrigation, fertilizer, yield_pred) ==
    (IF irrigation.litersPerAcre > H(2000) THEN <<"High water requirement">> ELSE <<>>)
    \o (IF fertilizer.nitrogen > H(150) THEN <<"High nitrogen need">> ELSE <<>>)
    \o (IF yield_pred.confidence < H(90) THEN <<"Low prediction confidence">> ELSE <<>>)

risk_factors(irrigation, fertilizer, yield_pred) ==
    (IF irrigation.litersPerAcre > H(2000) THEN <<"High water requirement">> ELSE <<>>)
    \o (IF fertilizer.nitrogen > H(150) THEN <<"High nitrogen need">> ELSE <<>>)
    \o (IF yield_pred.confidence < H(80) THEN <<"Low prediction confidence">> ELSE <<>>)

\* overall_risk that says High from two risk factors on
overall_riskHighAtTwo(factors) ==
    IF Len(factors) >= 2 THEN "High"
    ELSE IF Len(factors) > 0 THEN "Medium"
    ELSE "Low"

overall_risk(factors) ==
    IF Len(factors) > 2 THEN "High"
    ELSE IF Len(factors) > 0 THEN "Medium"
    ELSE "Low"

\* risk_assessment with waterStress and nutrientDeficiency counted from 0
risk_assessmentNoOffset(input_data, irrigation, fertilizer, yield_pred) ==
    [waterStress |-> Clamp0To100(irrigation.litersPerAcre \div 20),
     nutrientDeficiency |->
        Clamp0To100((fertilizer.nitrogen + fertilizer.phosphorus
                     + fertilizer.potassium) \div 5),
     climateRisk |-> Clamp0To100(Abs(input_data.weather.temperature - H(25)) * 2),
     overallRisk |-> overall_risk(risk_factors(irrigation, fertilizer, yield_pred))]

risk_assessment(input_data, irrigation, fertilizer, yield_pred) ==
    [waterStress |-> Clamp0To100((irrigation.litersPerAcre - H(1000)) \div 20),
     nutrientDeficiency |->
        Clamp0To100((fertilizer.nitrogen + fertilizer.phosphorus
                     + fertilizer.potassium - H(200)) \div 5),
     climateRisk |-> Clamp0To100(Abs(input_data.weather.temperature - H(25)) * 2),
     overallRisk |-> overall_risk(risk_factors(irrigation, fertilizer, yield_pred))]

\* economic_impact with the fertilizer saving of 15 up to a total of 200
economic_impactUpTo200(irrigation, fertilizer, yield_pred) ==
    LET water_saving == IF irrigation.method = "Drip Irrigation" THEN H(20) ELSE H(5)
        fertilizer_saving ==
            IF fertilizer.nitrogen + fertilizer.phosphorus + fertilizer.potassium <= H(200)
            THEN H(15) ELSE H(5)
        profit == (yield_pred.yieldIncrease * 8) \div 10
    IN  [costReduction |-> water_saving + fertilizer_saving,
         profitIncrease |-> IF profit > 0 THEN profit ELSE 0]

economic_impact(irrigation, fertilizer, yield_pred) ==
    LET water_saving == IF irrigation.method = "Drip Irrigation" THEN H(20) ELSE H(5)
        fertilizer_saving ==
            IF fertilizer.nitrogen + fertilizer.phosphorus + fertilizer.potassium < H(200)
            THEN H(15) ELSE H(5)
        profit == (yield_pred.yieldIncrease * 8) \div 10
    IN  [costReduction |-> water_saving + fertilizer_saving,
         profitIncrease |-> IF profit > 0 THEN profit ELSE 0]

Returned(value) == [status |-> "returned", value |-> value]

RaisedKeyError == [status |-> "raised", value |-> "KeyError"]

\* PredictorRuns under one try: a predictor that fails takes the others with it
PredictorRunsCascading(input_data, dir, scl, le, rnds, o) ==
    LET i == predict_irrigation(input_data, dir, scl, le, rnds[1], o.irrigation)
        f == predict_fertilizer(input_data, dir, scl, le, rnds[2], o.fertilizer)
        y == predict_yield(input_data, dir, scl, le, rnds[3], o.yield)
    IN  IF i.caught = "none" /\ f.caught = "none" /\ y.caught = "none"
        THEN <<i, f, y>>
        ELSE <<[i EXCEPT !.ret = IrrigationFallback],
               [f EXCEPT !.ret = FertilizerFallback],
               [y EXCEPT !.ret = YieldFallback]>>

\* the three predictor runs of one predict_all, in call order; rnds and o
\* give each predictor its own random draws and its own regressors
PredictorRuns(input_data, dir, scl, le, rnds, o) ==
    <<predict_irrigation(input_data, dir, scl, le, rnds[1], o.irrigation),
      predict_fertilizer(input_data, dir, scl, le, rnds[2], o.fertilizer),
      predict_yield(input_data, dir, scl, le, rnds[3], o.yield)>>

\* predict_all that validates the whole input before it invokes a predictor
predict_allValidating(input_data, dir, scl, le, rnds, o, tip) ==
    IF ~ FeatureKeysPresent(input_data) THEN Run(RaisedKeyError, <<>>, <<>>, <<>>)
    ELSE
      LET runs == PredictorRuns(input_data, dir, scl, le, rnds, o)
          irrigation == runs[1].ret
          fertilizer == runs[2].ret
          yield_pred == runs[3].ret
      IN  Run(Returned(
                [irrigation |-> irrigation,
                 fertilizer |-> fertilizer,
                 yieldPrediction |-> yield_pred,
                 riskAssessment |->
                     risk_assessment(input_data, irrigation, fertilizer, yield_pred),
                 sustainabilityTip |-> sustainability_tips[tip],
                 economicImpact |->
                     economic_impact(irrigation, fertilizer, yield_pred)]),
              <<runs[1].caught, runs[2].caught, runs[3].caught>>,
              runs[1].loaded \o runs[2].loaded \o runs[3].loaded,
              runs[1].invoked \o runs[2].invoked \o runs[3].invoked)

\* predict_all: the run of the whole call; tip is np.random.choice's index
predict_all(input_data, dir, scl, le, rnds, o, tip) ==
    IF ~ HasKeys(input_data, {"cropType"}) THEN Run(RaisedKeyError, <<>>, <<>>, <<>>)
    ELSE
      LET runs == PredictorRuns(input_data, dir, scl, le, rnds, o)
          irrigation == runs[1].ret
          fertilizer == runs[2].ret
          yield_pred == runs[3].ret
          caught == <<runs[1].caught, runs[2].caught, runs[3].caught>>
          loaded == runs[1].loaded \o runs[2].loaded \o runs[3].loaded
          invoked == runs[1].invoked \o runs[2].invoked \o runs[3].invoked
      IN  IF ~ HasKeys(input_data, {"weather"})
          THEN Run(RaisedKeyError, caught, loaded, invoked)
          ELSE IF ~ HasKeys(input_data.weather, {"temperature"})
               THEN Run(RaisedKeyError, caught, loaded, invoked)
          ELSE Run(Returned(
                     [irrigation |-> irrigation,
                      fertilizer |-> fertilizer,
                      yieldPrediction |-> yield_pred,
                      riskAssessment |->
                          risk_assessment(input_data, irrigation, fertilizer, yield_pred),
                      sustainabilityTip |-> sustainability_tips[tip],
                      economicImpact |->
                          economic_impact(irrigation, fertilizer, yield_pred)]),
                   caught, loaded, invoked)

----------------------------------------------------------------------------
(* Calls and the environment *)

\* the files of a run that joblib.load actually opens
Opened(dir, loaded) == {loaded[i] : i \in {j \in 1..Len(loaded) : Exists(dir, loaded[j])}}

CanRead(opened, cap) == \A f \in opened : reads[f] < cap

CountReads(dir, loaded) ==
    LET opened == Opened(dir, loaded)
    IN  [f \in Files |-> IF f \in opened THEN reads[f] + 1 ELSE reads[f]]

Call(op, input_data, run) ==
    [op |-> op, input |-> input_data, ret |-> run.ret, caught |-> run.caught,
     loaded |-> run.loaded, invoked |-> run.invoked]

\* the regressors of files get invoked: the features build and every file loads
Reaches(input_data, dir, files) ==
    /\ FeatureKeysPresent(input_data)
    /\ AllLoad(dir, files)

\* what the scaler and the regressors may do in a call that reaches them with
\* the scaler of target t (nothing to choose in a call that does not)
OraclesFor(oracles, input_data, files, t) ==
    IF Reaches(input_data, fs, files)
    THEN {o \in oracles : o.scaler = "raise" => t \in scalers}
    ELSE {CHOOSE o \in oracles : TRUE}

\* the files a call loads: none when the features do not build, else each
\* predictor's files up to the first that fails
LoadsOf(input_data, dir, filess) ==
    IF ~ FeatureKeysPresent(input_data) THEN {}
    ELSE UNION {Opened(dir, LoadedUpTo(dir, filess[i])) : i \in 1..Len(filess)}

\* the directories in which only the files of scope vary
DirsOver(scope) ==
    {[f \in Files |-> IF f \in scope THEN d[f] ELSE "missing"] : d \in [scope -> FileStates]}

\* model_trainer.py persists one artifact of scope (joblib.dump / json.dump)
TrainerWrites(scope) ==
    /\ \E f \in scope :
         /\ fs[f] # "ok"
         /\ fs' = [fs EXCEPT ![f] = "ok"]
    /\ UNCHANGED <<fallback_mode, metadata, models, scalers, label_encoders, reads, last>>

----------------------------------------------------------------------------
(* Specification of the construction itself: the state before it has the    *)
(* artifact directory only                                                  *)

\* no engine yet
Unbuilt == [op |-> "unbuilt"]

ConstructDirs ==
    {[d EXCEPT ![MetadataFile] = m] :
        d \in DirsOver(ScalerFiles), m \in FileStates \cup {"malformed"}}

InitConstruct ==
    /\ fs \in ConstructDirs
    /\ fallback_mode = FALSE
    /\ metadata = <<>>
    /\ models = {}
    /\ scalers = {}
    /\ label_encoders = <<>>
    /\ reads = [f \in Files |-> 0]
    /\ last = Unbuilt

\* AgriculturalPredictor(): _load_models raises when the metadata has no get,
\* after the scalers are loaded and before label_encoders has its entry
ConstructEngine ==
    /\ last = Unbuilt
    /\ fallback_mode' = LoadMetadataOf(fs)[1]
    /\ metadata' = LoadMetadataOf(fs)[2]
    /\ models' = {}
    /\ scalers' = LoadScalersOf(fs)
    /\ reads' = InitReads(fs)
    /\ LET crops == CropTypeOf(LoadMetadataOf(fs)[2])
       IN  IF crops.exc = "none"
           THEN /\ label_encoders' = [crop_type |-> crops.crop_type]
                /\ last' = [op |-> "__init__", ret |-> [status |-> "returned"]]
           ELSE /\ label_encoders' = <<>>
                /\ last' = [op |-> "__init__",
                            ret |-> [status |-> "raised", value |-> crops.exc]]
    /\ UNCHANGED fs

NextConstruct == ConstructEngine

SpecConstruct == InitConstruct /\ [][NextConstruct]_vars

----------------------------------------------------------------------------
(* Specification of predict_irrigation alone *)

\* an input without its soil section, and one without soil.ph
NoSoilInput == [weather |-> sample_input.weather, cropType |-> "rice"]

NoPhInput ==
    [soil |-> [nitrogen |-> H(20), phosphorus |-> H(15), potassium |-> H(25),
               organicMatter |-> H(3)],
     weather |-> sample_input.weather, cropType |-> "rice"]

UnknownCropInput ==
    MkInput(650, H(20), H(15), H(25), H(3), H(25), H(100), H(65), H(8), "dragonfruit")

Rnds == {Rnd(H(15), H(1013), 1), Rnd(-250, 99580, 12)}

IrrInputs == {sample_input, UnknownCropInput, NoSoilInput, NoPhInput}

NonFinite == {NaN, PosInf, NegInf}

RawIrr ==
    {Fin(-5000), Fin(9950), Fin(10050), Fin(H(1000)), Fin(100040), Fin(100050),
     Fin(200040), Fin(200050), Fin(200150), Fin(H(2500))} \cup NonFinite

\* the scaler transforms and the regressor answers or raises, or the scaler raises
IrrOracles ==
    [scaler : {"ok"}, irrigation : RawIrr \cup {Raised}]
    \cup [scaler : {"raise"}, irrigation : {Raised}]

IrrScope == {MetadataFile, ScalerFile("irrigation"), ModelFile("irrigation")}

InitIrrigation == \E d \in DirsOver(IrrScope) : Construct(d)

\* PredictIrrigation with the scalers and the crop list loaded again by the call
PredictIrrigationReloading ==
    \E input_data \in IrrInputs, rnd \in Rnds :
      /\ CanRead(LoadsOf(input_data, fs, <<<<ModelFile("irrigation")>>>>), MaxReads)
      /\ \E o \in OraclesFor(IrrOracles, input_data, <<ModelFile("irrigation")>>, "irrigation") :
          \E run \in {predict_irrigation(input_data, fs, LoadScalersOf(fs),
                                         label_encoders, rnd, o)} :
              /\ reads' = CountReads(fs, run.loaded)
              /\ last' = Call("predict_irrigation", input_data, run)
              /\ scalers' = LoadScalersOf(fs)
              /\ UNCHANGED <<fs, fallback_mode, metadata, models, label_encoders>>

PredictIrrigation ==
    \E input_data \in IrrInputs, rnd \in Rnds :
      /\ CanRead(LoadsOf(input_data, fs, <<<<ModelFile("irrigation")>>>>), MaxReads)
      /\ \E o \in OraclesFor(IrrOracles, input_data, <<ModelFile("irrigation")>>, "irrigation") :
          \E run \in {predict_irrigation(input_data, fs, scalers, label_encoders, rnd, o)} :
              /\ reads' = CountReads(fs, run.loaded)
              /\ last' = Call("predict_irrigation", input_data, run)
              /\ UNCHANGED <<fs, fallback_mode, metadata, models, scalers, label_encoders>>

NextIrrigation ==
    \/ PredictIrrigation
    \/ TrainerWrites(IrrScope \ {MetadataFile})

SpecIrrigation == InitIrrigation /\ [][NextIrrigation]_vars

\* predict_irrigation on a directory to which the trainer adds the metadata,
\* the scaler and the regressor after the engine was constructed
NextLateArtifacts ==
    \/ PredictIrrigation
    \/ TrainerWrites(IrrScope)

SpecLateArtifacts == InitIrrigation /\ [][NextLateArtifacts]_vars

----------------------------------------------------------------------------
(* Specification of predict_fertilizer alone *)

OneRnd == {Rnd(H(15), H(1013), 6)}

FertInputs == {sample_input, NoSoilInput}

RawN == {Fin(-1000), Fin(50), Fin(150), Fin(15050), Fin(H(160)), NaN}

RawP == {Fin(-500), Fin(4050), PosInf}

RawK == {Fin(H(50)), Fin(6049), NegInf}

\* every regressor answers, or one of them raises, or the scaler raises
FertOracles ==
    [scaler : {"ok"}, nitrogen : RawN, phosphorus : RawP, potassium : RawK]
    \cup [scaler : {"ok"}, nitrogen : {Raised}, phosphorus : {Raised}, potassium : {Raised}]
    \cup [scaler : {"ok"}, nitrogen : {Fin(150)}, phosphorus : {Raised}, potassium : {Raised}]
    \cup [scaler : {"ok"}, nitrogen : {Fin(150)}, phosphorus : {Fin(4050)}, potassium : {Raised}]
    \cup [scaler : {"raise"}, nitrogen : {Raised}, phosphorus : {Raised}, potassium : {Raised}]

FertScope ==
    {ScalerFile("nitrogen_fertilizer"), ModelFile("nitrogen_fertilizer"),
     ModelFile("phosphorus_fertilizer"), ModelFile("potassium_fertilizer")}

InitFertilizer == \E d \in DirsOver(FertScope) : Construct(d)

PredictFertilizer ==
    \E input_data \in FertInputs, rnd \in OneRnd :
      /\ CanRead(LoadsOf(input_data, fs, <<FertFiles>>), MaxReads)
      /\ \E o \in OraclesFor(FertOracles, input_data, FertFiles, "nitrogen_fertilizer") :
          \E run \in {predict_fertilizer(input_data, fs, scalers, label_encoders, rnd, o)} :
              /\ reads' = CountReads(fs, run.loaded)
              /\ last' = Call("predict_fertilizer", input_data, run)
              /\ UNCHANGED <<fs, fallback_mode, metadata, models, scalers, label_encoders>>

NextFertilizer ==
    \/ PredictFertilizer
    \/ TrainerWrites(FertScope)

SpecFertilizer == InitFertilizer /\ [][NextFertilizer]_vars

----------------------------------------------------------------------------
(* Specification of predict_yield alone *)

\* acid, poor, hot and dry
StressedInput ==
    MkInput(500, H(20), H(15), H(25), 150, H(40), H(30), H(65), H(8), "wheat")

\* every confidence bonus applies
BestInput ==
    MkInput(650, H(20), H(15), H(25), H(4), H(25), H(100), H(65), H(8), "maize")

YieldInputs == {sample_input, StressedInput, BestInput, NoSoilInput}

RawYield == {Fin(-100), Fin(325), NaN, PosInf}

RawIncrease ==
    {Fin(-300), Fin(50), Fin(2050), Fin(4950), Fin(5049), Fin(H(60))} \cup NonFinite

\* both regressors answer, or one of them raises, or the scaler raises
YieldOracles ==
    [scaler : {"ok"}, yield : RawYield, yield_increase : RawIncrease]
    \cup [scaler : {"ok"}, yield : {Raised}, yield_increase : {Raised}]
    \cup [scaler : {"ok"}, yield : {Fin(325)}, yield_increase : {Raised}]
    \cup [scaler : {"raise"}, yield : {Raised}, yield_increase : {Raised}]

YieldScope == {ScalerFile("yield"), ModelFile("yield"), ModelFile("yield_increase")}

InitYield == \E d \in DirsOver(YieldScope) : Construct(d)

PredictYield ==
    \E input_data \in YieldInputs, rnd \in OneRnd :
      /\ CanRead(LoadsOf(input_data, fs, <<YieldFiles>>), MaxReads)
      /\ \E o \in OraclesFor(YieldOracles, input_data, YieldFiles, "yield") :
          \E run \in {predict_yield(input_data, fs, scalers, label_encoders, rnd, o)} :
              /\ reads' = CountReads(fs, run.loaded)
              /\ last' = Call("predict_yield", input_data, run)
              /\ UNCHANGED <<fs, fallback_mode, metadata, models, scalers, label_encoders>>

NextYield ==
    \/ PredictYield
    \/ TrainerWrites(YieldScope)

SpecYield == InitYield /\ [][NextYield]_vars

----------------------------------------------------------------------------
(* Specification of predict_all *)

AllInputs == {sample_input, StressedInput}

AllRnds == {<<Rnd(H(15), H(1013), 1), Rnd(H(20), H(1000), 6), Rnd(-250, 99580, 12)>>}

AllIrrOracles ==
    [scaler : {"ok"}, irrigation : {Fin(H(1500)), Fin(200040), Fin(H(2400)), Raised}]
    \cup [scaler : {"raise"}, irrigation : {Raised}]

AllFertOracles ==
    [scaler : {"ok"}, nitrogen : {Fin(H(100)), Fin(H(160))}, phosphorus : {Fin(H(40))},
     potassium : {Fin(H(30)), Fin(H(50))}]
    \cup [scaler : {"ok"}, nitrogen : {Fin(H(100))}, phosphorus : {NaN},
          potassium : {Raised}]
    \cup [scaler : {"raise"}, nitrogen : {Raised}, phosphorus : {Raised},
          potassium : {Raised}]

AllYieldOracles ==
    [scaler : {"ok"}, yield : {Fin(325)}, yield_increase : {Fin(2050), NaN}]
    \cup [scaler : {"ok"}, yield : {Raised}, yield_increase : {Raised}]
    \cup [scaler : {"raise"}, yield : {Raised}, yield_increase : {Raised}]

\* a trained directory has the metadata and the six scalers
WithTrained(d) ==
    [f \in Files |-> IF f \in {MetadataFile} \cup ScalerFiles THEN "ok" ELSE d[f]]

AllDirs == DirsOver(ModelFiles) \cup {WithTrained(d) : d \in DirsOver(ModelFiles)}

Init == \E d \in AllDirs : Construct(d)

\* predict_agriculture of flask_api.py calls predict_all for one request ...
PredictAll ==
    \E input_data \in AllInputs, rnds \in AllRnds :
      /\ last = NoCall
      /\ CanRead(LoadsOf(input_data, fs,
                         <<<<ModelFile("irrigation")>>, FertFiles, YieldFiles>>),
                 MaxReads)
      /\ \E oi \in OraclesFor(AllIrrOracles, input_data, <<ModelFile("irrigation")>>,
                                "irrigation"),
            of \in OraclesFor(AllFertOracles, input_data, FertFiles,
                              "nitrogen_fertilizer"),
            oy \in OraclesFor(AllYieldOracles, input_data, YieldFiles, "yield"),
            tip \in 1..Len(sustainability_tips) :
           \E run \in {predict_all(input_data, fs, scalers, label_encoders, rnds,
                                   [irrigation |-> oi, fertilizer |-> of, yield |-> oy],
                                   tip)} :
             /\ reads' = CountReads(fs, run.loaded)
             /\ last' = Call("predict_all", input_data, run)
             /\ UNCHANGED <<fs, fallback_mode, metadata, models, scalers, label_encoders>>

\* ... and sends the predictions back, which ends the request
Respond ==
    /\ last # NoCall
    /\ last' = NoCall
    /\ UNCHANGED <<fs, fallback_mode, metadata, models, scalers, label_encoders, reads>>

Next ==
    \/ PredictAll
    \/ Respond

Spec == Init /\ [][Next]_vars

----------------------------------------------------------------------------
(* Specification of _prepare_features alone *)

\* a crop of the default list that the training table does not have
GroundnutInput ==
    MkInput(650, H(20), H(15), H(25), H(3), H(25), H(100), H(65), H(8), "groundnut")

FeatInputs ==
    {sample_input, UnknownCropInput, GroundnutInput, StressedInput, BestInput, NoPhInput}

Winds == {-250, H(15), 3120}

Pressures == {99580, H(1013)}

Months == 1..12

FeatRnds == {Rnd(w, p, m) : w \in Winds, p \in Pressures, m \in Months}

InitFeatures == \E d \in DirsOver({MetadataFile}) : Construct(d)

PrepareFeatures ==
    \E input_data \in FeatInputs, rnd \in FeatRnds :
      \E features \in {prepare_features(input_data, label_encoders, rnd)} :
        /\ last' = [op |-> "_prepare_features", input |-> input_data, rnd |-> rnd,
                    ret |-> features.vec, caught |-> features.exc,
                    loaded |-> <<>>, invoked |-> <<>>]
        /\ UNCHANGED <<fs, fallback_mode, metadata, models, scalers, label_encoders, reads>>

NextFeatures == PrepareFeatures

SpecFeatures == InitFeatures /\ [][NextFeatures]_vars

----------------------------------------------------------------------------
(* Specification of repeated predict_all calls on one engine, as the loop of *)
(* batch_predict of flask_api.py makes them: last also keeps the call before *)

RepeatInputs == {sample_input, StressedInput}

\* two sets of random draws that differ in the planting month of the
\* irrigation features
RepeatRnds ==
    {<<Rnd(H(15), H(1013), 1), Rnd(H(20), H(1000), 6), Rnd(-250, 99580, 12)>>,
     <<Rnd(H(15), H(1013), 7), Rnd(H(20), H(1000), 6), Rnd(-250, 99580, 12)>>}

\* an irrigation regressor is a function of the feature vector, here of its
\* planting_month component
RepeatRegressors ==
    {[m \in Months |-> Fin(H(1500))],
     [m \in Months |-> IF m <= 6 THEN Fin(H(2400)) ELSE Fin(H(900))]}

RepeatFertOracle ==
    [scaler |-> "ok", nitrogen |-> Fin(H(160)), phosphorus |-> Fin(H(40)),
     potassium |-> Fin(H(50))]

RepeatYieldOracle == [scaler |-> "ok", yield |-> Fin(325), yield_increase |-> Fin(2050)]

\* what np.random.choice may draw
RepeatTips == {1, 2, Len(sustainability_tips)}

\* a trained directory, and one without scalers, metadata and the phosphorus
\* regressor
RepeatDirs ==
    {[f \in Files |-> "ok"],
     [f \in Files |-> IF f \in ModelFiles \ {ModelFile("phosphorus_fertilizer")}
                      THEN "ok" ELSE "missing"]}

InitRepeat == \E d \in RepeatDirs : Construct(d)

\* what is kept of the call before
Before(call) ==
    IF call.op = "none" THEN [op |-> "none"]
    ELSE [op |-> call.op, input |-> call.input, rnds |-> call.rnds,
          regressor |-> call.regressor, tip |-> call.tip, ret |-> call.ret]

PredictAllAgain ==
    \E input_data \in RepeatInputs, rnds \in RepeatRnds, reg \in RepeatRegressors,
       tip \in RepeatTips :
      /\ CanRead(LoadsOf(input_data, fs,
                         <<<<ModelFile("irrigation")>>, FertFiles, YieldFiles>>),
                 MaxReads)
      /\ \E run \in {predict_all(input_data, fs, scalers, label_encoders, rnds,
                                  [irrigation |-> [scaler |-> "ok",
                                                   irrigation |-> reg[rnds[1].month]],
                                   fertilizer |-> RepeatFertOracle,
                                   yield |-> RepeatYieldOracle],
                                  tip)} :
           /\ reads' = CountReads(fs, run.loaded)
           /\ last' = [op |-> "predict_all", input |-> input_data, rnds |-> rnds,
                       regressor |-> reg, tip |-> tip, ret |-> run.ret,
                       caught |-> run.caught, loaded |-> run.loaded,
                       invoked |-> run.invoked, prev |-> Before(last)]
           /\ UNCHANGED <<fs, fallback_mode, metadata, models, scalers, label_encoders>>

NextRepeat == PredictAllAgain

SpecRepeat == InitRepeat /\ [][NextRepeat]_vars

----------------------------------------------------------------------------
(* Specification of the four prediction operations called in any order on    *)
(* one engine, as the requests of several callers reach the shared predictor *)
(* of flask_api.py                                                           *)

EngineInputs == {sample_input, NoSoilInput}

EngineRnd == Rnd(H(15), H(1013), 6)

EngineIrrOracles == [scaler : {"ok"}, irrigation : {Fin(H(1500)), Fin(H(2400))}]

EngineFertOracles ==
    [scaler : {"ok"}, nitrogen : {Fin(H(100)), Fin(H(160))}, phosphorus : {Fin(H(40))},
     potassium : {Fin(H(50))}]

EngineYieldOracles == [scaler : {"ok"}, yield : {Fin(325)}, yield_increase : {Fin(2050), NaN}]

\* every regressor loads, the scalers of ok load, those of bad are corrupt,
\* the other scalers and the metadata are missing
ScalerDir(ok, bad) ==
    [f \in Files |->
        IF f \in ModelFiles \cup {ScalerFile(t) : t \in ok} THEN "ok"
        ELSE IF f \in {ScalerFile(t) : t \in bad} THEN "corrupt"
        ELSE "missing"]

EngineDirs ==
    RepeatDirs
    \cup {ScalerDir({"phosphorus_fertilizer", "yield_increase"}, {"irrigation"}),
          ScalerDir({"irrigation", "nitrogen_fertilizer"}, {"yield"})}

InitEngine == \E d \in EngineDirs : Construct(d)

\* the call as last keeps it: with the random draws and the regressors' answers
CallOf(op, input_data, rnd, o, tip, run) ==
    [op |-> op, input |-> input_data, rnd |-> rnd, oracle |-> o, tip |-> tip,
     ret |-> run.ret, caught |-> run.caught, loaded |-> run.loaded,
     invoked |-> run.invoked]

EnginePredictIrrigation ==
    \E input_data \in EngineInputs :
      /\ CanRead(LoadsOf(input_data, fs, <<<<ModelFile("irrigation")>>>>), MaxReads)
      /\ \E o \in OraclesFor(EngineIrrOracles, input_data, <<ModelFile("irrigation")>>,
                              "irrigation") :
          \E run \in {predict_irrigation(input_data, fs, scalers, label_encoders,
                                         EngineRnd, o)} :
              /\ reads' = CountReads(fs, run.loaded)
              /\ last' = CallOf("predict_irrigation", input_data, EngineRnd, o, 0, run)
              /\ UNCHANGED <<fs, fallback_mode, metadata, models, scalers, label_encoders>>

EnginePredictFertilizer ==
    \E input_data \in EngineInputs :
      /\ CanRead(LoadsOf(input_data, fs, <<FertFiles>>), MaxReads)
      /\ \E o \in OraclesFor(EngineFertOracles, input_data, FertFiles,
                              "nitrogen_fertilizer") :
          \E run \in {predict_fertilizer(input_data, fs, scalers, label_encoders,
                                         EngineRnd, o)} :
              /\ reads' = CountReads(fs, run.loaded)
              /\ last' = CallOf("predict_fertilizer", input_data, EngineRnd, o, 0, run)
              /\ UNCHANGED <<fs, fallback_mode, metadata, models, scalers, label_encoders>>

EnginePredictYield ==
    \E input_data \in EngineInputs :
      /\ CanRead(LoadsOf(input_data, fs, <<YieldFiles>>), MaxReads)
      /\ \E o \in OraclesFor(EngineYieldOracles, input_data, YieldFiles, "yield") :
          \E run \in {predict_yield(input_data, fs, scalers, label_encoders,
                                    EngineRnd, o)} :
              /\ reads' = CountReads(fs, run.loaded)
              /\ last' = CallOf("predict_yield", input_data, EngineRnd, o, 0, run)
              /\ UNCHANGED <<fs, fallback_mode, metadata, models, scalers, label_encoders>>

\* EnginePredictAll that keeps the regressors it loaded in self.models
EnginePredictAllCaching ==
    \E input_data \in EngineInputs, tip \in RepeatTips :
      /\ CanRead(LoadsOf(input_data, fs,
                         <<<<ModelFile("irrigation")>>, FertFiles, YieldFiles>>),
                 MaxReads)
      /\ \E oi \in OraclesFor(EngineIrrOracles, input_data, <<ModelFile("irrigation")>>,
                               "irrigation"),
            of \in OraclesFor(EngineFertOracles, input_data, FertFiles,
                              "nitrogen_fertilizer"),
            oy \in OraclesFor(EngineYieldOracles, input_data, YieldFiles, "yield") :
           \E o \in {[irrigation |-> oi, fertilizer |-> of, yield |-> oy]} :
             \E run \in {predict_all(input_data, fs, scalers, label_encoders,
                                     <<EngineRnd, EngineRnd, EngineRnd>>, o, tip)} :
               /\ reads' = CountReads(fs, run.loaded)
               /\ last' = CallOf("predict_all", input_data,
                                 <<EngineRnd, EngineRnd, EngineRnd>>, o, tip, run)
               /\ models' = models \cup {f \in Opened(fs, run.loaded) : fs[f] = "ok"}
               /\ UNCHANGED <<fs, fallback_mode, metadata, scalers, label_encoders>>

EnginePredictAll ==
    \E input_data \in EngineInputs, tip \in RepeatTips :
      /\ CanRead(LoadsOf(input_data, fs,
                         <<<<ModelFile("irrigation")>>, FertFiles, YieldFiles>>),
                 MaxReads)
      /\ \E oi \in OraclesFor(EngineIrrOracles, input_data, <<ModelFile("irrigation")>>,
                               "irrigation"),
            of \in OraclesFor(EngineFertOracles, input_data, FertFiles,
                              "nitrogen_fertilizer"),
            oy \in OraclesFor(EngineYieldOracles, input_data, YieldFiles, "yield") :
           \E o \in {[irrigation |-> oi, fertilizer |-> of, yield |-> oy]} :
             \E run \in {predict_all(input_data, fs, scalers, label_encoders,
                                     <<EngineRnd, EngineRnd, EngineRnd>>, o, tip)} :
               /\ reads' = CountReads(fs, run.loaded)
               /\ last' = CallOf("predict_all", input_data,
                                 <<EngineRnd, EngineRnd, EngineRnd>>, o, tip, run)
               /\ UNCHANGED <<fs, fallback_mode, metadata, models, scalers, label_encoders>>

NextEngine ==
    \/ EnginePredictIrrigation
    \/ EnginePredictFertilizer
    \/ EnginePredictYield
    \/ EnginePredictAll

SpecEngine == InitEngine /\ [][NextEngine]_vars

----------------------------------------------------------------------------
(* Specification of predict_all over records that reach every branch of the *)
(* risk assessment and of the economic impact                               *)

\* 55 degrees away from 25
ColdInput ==
    MkInput(650, H(20), H(15), H(25), H(3), -3000, H(100), H(65), H(8), "wheat")

AggregateInputs == {sample_input, StressedInput, ColdInput}

AggregateRnds == <<Rnd(H(15), H(1013), 1), Rnd(H(20), H(1000), 6), Rnd(-250, 99580, 12)>>

AggregateIrrOracles ==
    [scaler : {"ok"},
     irrigation : {Fin(H(500)), Fin(H(1500)), Fin(H(2000)), Fin(H(2400)), Fin(H(3500)),
                   Raised}]

\* N + P + K of 190, 200, 240, 250 and 790, or no answer
AggregateFertOracles ==
    [scaler : {"ok"},
     nitrogen : {Fin(H(100)), Fin(H(110)), Fin(H(150)), Fin(H(160)), Fin(H(700))},
     phosphorus : {Fin(H(40))}, potassium : {Fin(H(50))}]
    \cup [scaler : {"ok"}, nitrogen : {Raised}, phosphorus : {Raised}, potassium : {Raised}]

AggregateYieldOracles ==
    [scaler : {"ok"}, yield : {Fin(325)},
     yield_increase : {Fin(-300), Fin(2050), Fin(3300), Fin(H(60))}]
    \cup [scaler : {"ok"}, yield : {Raised}, yield_increase : {Raised}]

InitAggregate == \E d \in RepeatDirs : Construct(d)

AggregatePredictAll ==
    \E input_data \in AggregateInputs :
      /\ last = NoCall
      /\ CanRead(LoadsOf(input_data, fs,
                         <<<<ModelFile("irrigation")>>, FertFiles, YieldFiles>>),
                 MaxReads)
      /\ \E oi \in OraclesFor(AggregateIrrOracles, input_data,
                               <<ModelFile("irrigation")>>, "irrigation"),
            of \in OraclesFor(AggregateFertOracles, input_data, FertFiles,
                              "nitrogen_fertilizer"),
            oy \in OraclesFor(AggregateYieldOracles, input_data, YieldFiles, "yield"),
            tip \in 1..Len(sustainability_tips) :
           \E run \in {predict_all(input_data, fs, scalers, label_encoders,
                                   AggregateRnds,
                                   [irrigation |-> oi, fertilizer |-> of, yield |-> oy],
                                   tip)} :
             /\ reads' = CountReads(fs, run.loaded)
             /\ last' = Call("predict_all", input_data, run)
             /\ UNCHANGED <<fs, fallback_mode, metadata, models, scalers, label_encoders>>

NextAggregate ==
    \/ AggregatePredictAll
    \/ Respond

SpecAggregate == InitAggregate /\ [][NextAggregate]_vars

----------------------------------------------------------------------------
(* Specification of predict_all over inputs that lack a section or a field *)

\* the dictionary d without the key k
Without(d, k) == [x \in DOMAIN d \ {k} |-> d[x]]

\* sample_input without one soil field, or without the soil section
SoilIncomplete ==
    {[sample_input EXCEPT !.soil = Without(sample_input.soil, k)] : k \in SoilFields}
    \cup {Without(sample_input, "soil")}

\* sample_input without one weather field other than the temperature
WeatherIncomplete ==
    {[sample_input EXCEPT !.weather = Without(sample_input.weather, k)] :
        k \in WeatherFields \ {"temperature"}}

\* sample_input without what predict_all itself subscripts
Unanswerable ==
    {Without(sample_input, "cropType"), Without(sample_input, "weather"),
     [sample_input EXCEPT !.weather = Without(sample_input.weather, "temperature")]}

IncompleteInputs == {sample_input} \cup SoilIncomplete \cup WeatherIncomplete \cup Unanswerable

InitIncomplete == \E d \in RepeatDirs : Construct(d)

PredictAllIncomplete ==
    \E input_data \in IncompleteInputs :
      /\ last = NoCall
      /\ CanRead(LoadsOf(input_data, fs,
                         <<<<ModelFile("irrigation")>>, FertFiles, YieldFiles>>),
                 MaxReads)
      /\ \E oi \in OraclesFor(EngineIrrOracles, input_data,
                               <<ModelFile("irrigation")>>, "irrigation"),
            of \in OraclesFor(EngineFertOracles, input_data, FertFiles,
                              "nitrogen_fertilizer"),
            oy \in OraclesFor(EngineYieldOracles, input_data, YieldFiles, "yield"),
            tip \in RepeatTips :
           \E run \in {predict_all(input_data, fs, scalers, label_encoders,
                                   AggregateRnds,
                                   [irrigation |-> oi, fertilizer |-> of, yield |-> oy],
                                   tip)} :
             /\ reads' = CountReads(fs, run.loaded)
             /\ last' = Call("predict_all", input_data, run)
             /\ UNCHANGED <<fs, fallback_mode, metadata, models, scalers, label_encoders>>

NextIncomplete ==
    \/ PredictAllIncomplete
    \/ Respond

SpecIncomplete == InitIncomplete /\ [][NextIncomplete]_vars

----------------------------------------------------------------------------
(* Specification of predict_all on directories without a loadable regressor *)

\* as warm as sample_input, everything else different
HumidInput ==
    MkInput(720, H(90), H(5), H(60), 150, H(25), H(400), H(95), H(2), "cotton")

NoRegressorInputs ==
    {sample_input, HumidInput, UnknownCropInput, BestInput, StressedInput, ColdInput}

\* every regressor file is missing or does not load, with and without the
\* metadata and the scalers; and a trained directory
NoRegressorDirs ==
    LET broken == {d \in DirsOver(ModelFiles) : \A f \in ModelFiles : d[f] # "ok"}
    IN  broken \cup {WithTrained(d) : d \in broken} \cup {[f \in Files |-> "ok"]}

InitNoRegressor == \E d \in NoRegressorDirs : Construct(d)

PredictAllNoRegressor ==
    \E input_data \in NoRegressorInputs :
      /\ last = NoCall
      /\ CanRead(LoadsOf(input_data, fs,
                         <<<<ModelFile("irrigation")>>, FertFiles, YieldFiles>>),
                 MaxReads)
      /\ \E oi \in OraclesFor(EngineIrrOracles, input_data,
                               <<ModelFile("irrigation")>>, "irrigation"),
            of \in OraclesFor(EngineFertOracles, input_data, FertFiles,
                              "nitrogen_fertilizer"),
            oy \in OraclesFor(EngineYieldOracles, input_data, YieldFiles, "yield"),
            tip \in 1..Len(sustainability_tips) :
           \E run \in {predict_all(input_data, fs, scalers, label_encoders,
                                   AggregateRnds,
                                   [irrigation |-> oi, fertilizer |-> of, yield |-> oy],
                                   tip)} :
             /\ reads' = CountReads(fs, run.loaded)
             /\ last' = Call("predict_all", input_data, run)
             /\ UNCHANGED <<fs, fallback_mode, metadata, models, scalers, label_encoders>>

NextNoRegressor ==
    \/ PredictAllNoRegressor
    \/ Respond

SpecNoRegressor == InitNoRegressor /\ [][NextNoRegressor]_vars

----------------------------------------------------------------------------
(* Specification of the /api/batch-predict endpoint of flask_api.py: one    *)
(* action handles one request, from request.get_json() to the response      *)

\* what request.get_json() can give: None for the body null, a list, or a
\* dict; the value of a member is a list of items or a string
JNull == [type |-> "null"]

JString(str) == [type |-> "string", str |-> str]

JList(items) == [type |-> "list", items |-> items]

JObject(members) == [type |-> "object", members |-> members]

BatchItems ==
    {sample_input, Without(sample_input, "soil"), Without(sample_input, "cropType"),
     Without(sample_input, "weather")}

ItemLists == UNION {[1..n -> BatchItems] : n \in 0..MaxBatch}

BatchBodies ==
    {JNull, JList(<<>>), JObject([data |-> JList(<<sample_input>>)]),
     JObject([inputs |-> JString("rice")])}
    \cup {JObject([inputs |-> JList(items)]) : items \in ItemLists}

\* what the scalers and regressors do during one request
BatchOracles ==
    {[irrigation |-> [scaler |-> "ok", irrigation |-> i],
      fertilizer |-> [scaler |-> "ok", nitrogen |-> Fin(H(160)),
                      phosphorus |-> Fin(H(40)), potassium |-> Fin(H(50))],
      yield |-> [scaler |-> "ok", yield |-> Fin(325), yield_increase |-> Fin(2050)]] :
        i \in {Fin(H(2400)), Raised}}

BatchTips == {1, Len(sustainability_tips)}

\* 'inputs' not in data: a TypeError for None
InputsNotIn(data) ==
    CASE data.type = "null" -> [exc |-> "TypeError", v |-> FALSE]
      [] data.type = "object" -> [exc |-> "none", v |-> "inputs" \notin DOMAIN data.members]
      [] OTHER -> [exc |-> "none", v |-> TRUE]

\* the body of the for loop: the entry appended for one input
BatchEntry(input_data, run) ==
    IF run.ret.status = "returned"
    THEN [input |-> input_data, predictions |-> run.ret.value, status |-> "success"]
    ELSE [input |-> input_data, error |-> run.ret.value, status |-> "error"]

\* predict_all for the i-th input of the loop
BatchRun(items, tips, o, i) ==
    predict_all(items[i], fs, scalers, label_encoders, AggregateRnds, o, tips[i])

\* the files the loop has loaded with joblib.load from the i-th input on
RECURSIVE BatchLoaded(_, _, _, _)
BatchLoaded(items, tips, o, i) ==
    IF i > Len(items) THEN <<>>
    ELSE BatchRun(items, tips, o, i).loaded \o BatchLoaded(items, tips, o, i + 1)

\* the for loop over data['inputs']: the entries in the order of the inputs,
\* the inputs predict_all was called with, the files loaded, and the read
\* counts afterwards
BatchLoop(items, tips, o) ==
    [predictions |-> [i \in 1..Len(items) |->
                         BatchEntry(items[i], BatchRun(items, tips, o, i))],
     calls |-> items,
     loaded |-> BatchLoaded(items, tips, o, 1),
     reads |-> [f \in Files |->
                  reads[f] + Cardinality({i \in 1..Len(items) :
                      f \in Opened(fs, BatchRun(items, tips, o, i).loaded)})]]

BatchStart == [predictions |-> <<>>, calls |-> <<>>, loaded |-> <<>>, reads |-> reads]

\* the response, the exception of the outer try, and what the loop did
BatchResult(response, caught, done) ==
    [response |-> response, caught |-> caught, done |-> done]

batch_predict(data, tips, o) ==
    IF InputsNotIn(data).exc # "none"
    THEN BatchResult([code |-> 500, status |-> "error", error |-> "Batch prediction failed"],
                     InputsNotIn(data).exc, BatchStart)
    ELSE IF InputsNotIn(data).v \/ data.members.inputs.type # "list"
    THEN BatchResult([code |-> 400, status |-> "error",
                      error |-> "Missing or invalid inputs array"],
                     "none", BatchStart)
    ELSE LET done == BatchLoop(data.members.inputs.items, tips, o)
         IN  BatchResult([code |-> 200, status |-> "success",
                          predictions |-> done.predictions,
                          total_processed |-> Len(done.predictions)],
                         "none", done)

\* flask_api.py constructs the engine when it is imported
InitBatch == \E d \in RepeatDirs : Construct(d)

BatchPredict ==
    \E data \in BatchBodies, o \in BatchOracles, tips \in [1..MaxBatch -> BatchTips] :
      /\ last = NoCall
      /\ \E result \in {batch_predict(data, tips, o)} :
           /\ \A f \in Files : result.done.reads[f] <= MaxReads
           /\ reads' = result.done.reads
           /\ last' = [op |-> "batch_predict", input |-> data, ret |-> result.response,
                       caught |-> result.caught, loaded |-> result.done.loaded,
                       invoked |-> result.done.calls]
           /\ UNCHANGED <<fs, fallback_mode, metadata, models, scalers, label_encoders>>

NextBatch ==
    \/ BatchPredict
    \/ Respond

SpecBatch == InitBatch /\ [][NextBatch]_vars

----------------------------------------------------------------------------
(* Specification of predict_yield over inputs on and next to every threshold *)
(* of the confidence and of the limiting factors                             *)

RulePh == {549, 550, 600, 601, 699, 700, 800, 801}

RuleOrganicMatter == {199, 200, 300, 301}

RuleTemperature == {999, 1000, 3500, 3501}

RuleRainfall == {4999, 5000, 20000, 20001}

RuleInputs ==
    {MkInput(ph, H(20), H(15), H(25), om, t, rain, H(65), H(8), "rice") :
        ph \in RulePh, om \in RuleOrganicMatter, t \in RuleTemperature,
        rain \in RuleRainfall}

RuleOracles ==
    [scaler : {"ok"}, yield : {Fin(325)}, yield_increase : {Fin(2050)}]
    \cup [scaler : {"ok"}, yield : {Raised}, yield_increase : {Raised}]

InitYieldRules == \E d \in RepeatDirs : Construct(d)

PredictYieldRules ==
    \E input_data \in RuleInputs :
      /\ last = NoCall
      /\ CanRead(LoadsOf(input_data, fs, <<YieldFiles>>), MaxReads)
      /\ \E o \in OraclesFor(RuleOracles, input_data, YieldFiles, "yield") :
          \E run \in {predict_yield(input_data, fs, scalers, label_encoders, EngineRnd, o)} :
              /\ reads' = CountReads(fs, run.loaded)
              /\ last' = Call("predict_yield", input_data, run)
              /\ UNCHANGED <<fs, fallback_mode, metadata, models, scalers, label_encoders>>

NextYieldRules ==
    \/ PredictYieldRules
    \/ Respond

SpecYieldRules == InitYieldRules /\ [][NextYieldRules]_vars

----------------------------------------------------------------------------
(* Properties *)

ResultFields ==
    {"irrigation", "fertilizer", "yieldPrediction", "riskAssessment",
     "sustainabilityTip", "economicImpact"}

IrrigationFields == {"litersPerAcre", "frequency", "method", "efficiency", "criticalPeriods"}

FertilizerFields ==
    {"nitrogen", "phosphorus", "potassium", "applicationSchedule", "efficiency"}

YieldFields == {"expectedYield", "yieldIncrease", "limitingFactors", "confidence"}

RiskFields == {"waterStress", "nutrientDeficiency", "climateRisk", "overallRisk"}

EconomicFields == {"costReduction", "profitIncrease"}

TipSet == {sustainability_tips[i] : i \in 1..Len(sustainability_tips)}

\* the last call was predict_all and it returned a result
ReturnedAll == last.op = "predict_all" /\ last.ret.status = "returned"

\* every file of the sequence files is present and loads
FilesOk(files) == \A i \in 1..Len(files) : fs[files[i]] = "ok"

\* what the regressor of target t answered in the last call
Answered(t) == \E i \in 1..Len(last.invoked) : last.invoked[i].target = t

OutOf(t) ==
    last.invoked[CHOOSE i \in 1..Len(last.invoked) : last.invoked[i].target = t].out

AnswerOr(t) == IF Answered(t) THEN OutOf(t) ELSE Raised

\* C1: for every well-formed input and every combination of present, missing
\* and corrupt artifact files, predict_all returns a result that has all six
\* top-level fields and every nested field, none of them empty.
C1_Complete ==
    (last.op = "predict_all" /\ WellFormed(last.input)) =>
        /\ last.ret.status = "returned"
        /\ DOMAIN last.ret.value = ResultFields
        /\ DOMAIN last.ret.value.irrigation = IrrigationFields
        /\ DOMAIN last.ret.value.fertilizer = FertilizerFields
        /\ DOMAIN last.ret.value.yieldPrediction = YieldFields
        /\ DOMAIN last.ret.value.riskAssessment = RiskFields
        /\ DOMAIN last.ret.value.economicImpact = EconomicFields
        /\ last.ret.value.sustainabilityTip \in TipSet
        /\ last.ret.value.irrigation.criticalPeriods # <<>>
        /\ last.ret.value.fertilizer.applicationSchedule # <<>>
        /\ last.ret.value.yieldPrediction.limitingFactors # <<>>
        /\ last.ret.value.riskAssessment.overallRisk \in {"Low", "Medium", "High"}

\* a result over a directory with a loadable, a corrupt and a missing regressor
C1_Witness ==
    /\ ReturnedAll
    /\ WellFormed(last.input)
    /\ fs[ModelFile("irrigation")] = "ok"
    /\ fs[ModelFile("nitrogen_fertilizer")] = "corrupt"
    /\ fs[ModelFile("yield")] = "missing"
    /\ fs[MetadataFile] = "missing"

\* the record of predictor p (1 irrigation, 2 fertilizer, 3 yield) in the result
RecordOf(p) ==
    CASE p = 1 -> last.ret.value.irrigation
      [] p = 2 -> last.ret.value.fertilizer
      [] p = 3 -> last.ret.value.yieldPrediction

FallbackOf(p) ==
    CASE p = 1 -> IrrigationFallback
      [] p = 2 -> FertilizerFallback
      [] p = 3 -> YieldFallback

TargetsOf(p) ==
    CASE p = 1 -> {"irrigation"}
      [] p = 2 -> {"nitrogen_fertilizer", "phosphorus_fertilizer", "potassium_fertilizer"}
      [] p = 3 -> {"yield", "yield_increase"}

\* a regressor of predictor p answered with NaN or an infinity
NonFiniteAnswer(p) ==
    \E i \in 1..Len(last.invoked) :
        last.invoked[i].target \in TargetsOf(p) /\ last.invoked[i].out \in NonFinite

\* C2: in each of the three predictors every failure (features, loading,
\* scaling, regressor raising, non-finite output) ends in exactly the
\* predictor's fallback record.
C2_FailuresFallBack ==
    ReturnedAll =>
        \A p \in 1..3 :
            (last.caught[p] # "none" \/ NonFiniteAnswer(p)) => RecordOf(p) = FallbackOf(p)

\* the directory of the last call with every regressor file loadable
AllModelsOk == [f \in Files |-> IF f \in ModelFiles THEN "ok" ELSE fs[f]]

\* what the scaler and the regressors of the last call did, per predictor
ScalerDid(p) == IF last.caught[p] = "ScalerError" THEN "raise" ELSE "ok"

LastOracles ==
    [irrigation |-> [scaler |-> ScalerDid(1), irrigation |-> AnswerOr("irrigation")],
     fertilizer |-> [scaler |-> ScalerDid(2),
                     nitrogen |-> AnswerOr("nitrogen_fertilizer"),
                     phosphorus |-> AnswerOr("phosphorus_fertilizer"),
                     potassium |-> AnswerOr("potassium_fertilizer")],
     yield |-> [scaler |-> ScalerDid(3), yield |-> AnswerOr("yield"),
                yield_increase |-> AnswerOr("yield_increase")]]

\* the record predictor p returns for the last input when no regressor file
\* is missing or corrupt and scalers and regressors behave as they did
WithAllModels(p) ==
    CASE p = 1 -> predict_irrigation(last.input, AllModelsOk, scalers, label_encoders,
                                     Rnd(0, 0, 1), LastOracles.irrigation).ret
      [] p = 2 -> predict_fertilizer(last.input, AllModelsOk, scalers, label_encoders,
                                     Rnd(0, 0, 1), LastOracles.fertilizer).ret
      [] p = 3 -> predict_yield(last.input, AllModelsOk, scalers, label_encoders,
                                Rnd(0, 0, 1), LastOracles.yield).ret

RegressorFilesOf(p) ==
    CASE p = 1 -> <<ModelFile("irrigation")>>
      [] p = 2 -> FertFiles
      [] p = 3 -> YieldFiles

\* C3: predict_all runs all three predictors on every call; a predictor with a
\* missing or corrupt regressor file returns its fallback record, and every
\* other predictor returns the record it returns when no regressor file is
\* missing or corrupt, which is not the fallback record when its regressors
\* answered.
C3_Isolation ==
    ReturnedAll =>
        /\ Len(last.caught) = 3
        /\ \A p \in 1..3 :
             IF FilesOk(RegressorFilesOf(p))
             THEN /\ RecordOf(p) = WithAllModels(p)
                  /\ last.caught[p] = "none" => RecordOf(p) # FallbackOf(p)
             ELSE /\ RecordOf(p) = FallbackOf(p)
                  /\ last.caught[p] = "LoadError"

\* the fertilizer regressors are unavailable, the others answered
C3_Witness ==
    /\ ReturnedAll
    /\ fs[ModelFile("potassium_fertilizer")] = "missing"
    /\ last.ret.value.fertilizer = FertilizerFallback
    /\ last.ret.value.irrigation.litersPerAcre = H(2400)
    /\ last.ret.value.yieldPrediction.confidence = H(94)

TriggerCount(v) ==
    (IF v.irrigation.litersPerAcre > H(2000) THEN 1 ELSE 0)
    + (IF v.fertilizer.nitrogen > H(150) THEN 1 ELSE 0)
    + (IF v.yieldPrediction.confidence < H(80) THEN 1 ELSE 0)

RiskOfCount(n) == IF n = 0 THEN "Low" ELSE IF n <= 2 THEN "Medium" ELSE "High"

NoArtifacts == \A f \in Files : fs[f] = "missing"

\* C4: with no artifact present predict_all returns the irrigation fallback
\* (1000 l/acre, Drip Irrigation, Every 2-3 days, 85) in a complete result
\* whose overallRisk is the category of the number of risk triggers.
C4_NoArtifacts ==
    (last.op = "predict_all" /\ NoArtifacts /\ WellFormed(last.input)) =>
        /\ last.ret.status = "returned"
        /\ DOMAIN last.ret.value = ResultFields
        /\ last.ret.value.irrigation.litersPerAcre = 100000
        /\ last.ret.value.irrigation.method = "Drip Irrigation"
        /\ last.ret.value.irrigation.frequency = "Every 2-3 days"
        /\ last.ret.value.irrigation.efficiency = 8500
        /\ last.ret.value.riskAssessment.overallRisk
             = RiskOfCount(TriggerCount(last.ret.value))

\* the rice example on an empty directory
C4_Witness ==
    /\ ReturnedAll
    /\ NoArtifacts
    /\ last.input = sample_input
    /\ last.ret.value.riskAssessment.overallRisk = "Medium"

\* C5: for a well-formed input the feature vector has exactly 17 components,
\* in the order of the trainer's feature_columns, the first nine being the
\* input's soil and weather values.
C5_FeatureOrder ==
    (last.op = "_prepare_features" /\ WellFormed(last.input)) =>
        /\ last.caught = "none"
        /\ Len(last.ret) = 17
        /\ Len(feature_columns) = 17
        /\ \A i \in 1..17 : last.ret[i].col = feature_columns[i]
        /\ <<last.ret[1].num, last.ret[2].num, last.ret[3].num, last.ret[4].num,
             last.ret[5].num>>
             = <<last.input.soil.ph, last.input.soil.nitrogen, last.input.soil.phosphorus,
                 last.input.soil.potassium, last.input.soil.organicMatter>>
        /\ <<last.ret[6].num, last.ret[7].num, last.ret[8].num, last.ret[9].num>>
             = <<last.input.weather.temperature, last.input.weather.rainfall,
                 last.input.weather.humidity, last.input.weather.sunlightHours>>
        /\ <<last.ret[10].num, last.ret[11].num, last.ret[12].num, last.ret[13].num>>
             = <<last.rnd.wind, last.rnd.pressure, 12000, 100 * last.rnd.month>>

\* a vector built for an input whose rainfall and humidity differ
C5_Witness ==
    /\ last.op = "_prepare_features"
    /\ last.input = StressedInput
    /\ Len(last.ret) = 17
    /\ last.ret[7].num # last.ret[8].num

\* C6: each artifact file is read at most once over any sequence of calls.
C6_ReadAtMostOnce == \A f \in Files : reads[f] <= 1

\* the last call was made with every file of files loadable
\* and the except branch of predictor p not taken
Derived(p) == FilesOk(RegressorFilesOf(p)) /\ last.caught[p] = "none"

Floor0(n) == IF n > 0 THEN n ELSE 0

\* C7: every per-target record has all its fields and is either the fallback
\* record or derived from the regressors' answers as a whole; with one of the
\* N/P/K regressors unavailable nitrogen, phosphorus and potassium are 100,
\* 50, 60, and with one of the two yield regressors unavailable the yield
\* record is the fallback, confidence and limitingFactors included.
C7_NeverPartial ==
    ReturnedAll =>
        LET i == last.ret.value.irrigation
            f == last.ret.value.fertilizer
            y == last.ret.value.yieldPrediction
        IN  /\ DOMAIN i = IrrigationFields
            /\ DOMAIN f = FertilizerFields
            /\ DOMAIN y = YieldFields
            /\ \/ i = [litersPerAcre |-> 100000, frequency |-> "Every 2-3 days",
                       method |-> "Drip Irrigation", efficiency |-> 8500,
                       criticalPeriods |-> <<"Flowering stage">>]
               \/ /\ Derived(1)
                  /\ i.litersPerAcre
                       = Floor0(RoundHalfEven(OutOf("irrigation").v, 100) - 10000) + 10000
                  /\ i.efficiency \in {9000, 7500}
                  /\ Len(i.criticalPeriods) = 2
            /\ \/ f = [nitrogen |-> 10000, phosphorus |-> 5000, potassium |-> 6000,
                       applicationSchedule |-> <<"Split application recommended">>,
                       efficiency |-> 8000]
               \/ /\ Derived(2)
                  /\ f.nitrogen = Floor0(RoundHalfEven(OutOf("nitrogen_fertilizer").v, 100))
                  /\ f.phosphorus
                       = Floor0(RoundHalfEven(OutOf("phosphorus_fertilizer").v, 100))
                  /\ f.potassium
                       = Floor0(RoundHalfEven(OutOf("potassium_fertilizer").v, 100))
                  /\ f.efficiency = 8500
                  /\ Len(f.applicationSchedule) = 3
            /\ \/ y = [expectedYield |-> Fin(350), yieldIncrease |-> 1500,
                       limitingFactors |-> <<"Model prediction unavailable">>,
                       confidence |-> 7000]
               \/ /\ Derived(3)
                  /\ y.confidence >= 8500
                  /\ y.limitingFactors # <<"Model prediction unavailable">>
                  /\ y.expectedYield = PyRound1(PyMax(0, OutOf("yield")))
            /\ ~ FilesOk(FertFiles) =>
                 f.nitrogen = 10000 /\ f.phosphorus = 5000 /\ f.potassium = 6000
            /\ ~ FilesOk(YieldFiles) =>
                 /\ y.confidence = 7000
                 /\ y.limitingFactors = <<"Model prediction unavailable">>
                 /\ y.yieldIncrease = 1500
                 /\ y.expectedYield = Fin(350)

\* only the potassium regressor is unavailable, and all three values are the
\* fallback values
C7_Witness ==
    /\ ReturnedAll
    /\ fs[ModelFile("nitrogen_fertilizer")] = "ok"
    /\ fs[ModelFile("phosphorus_fertilizer")] = "ok"
    /\ fs[ModelFile("potassium_fertilizer")] = "corrupt"
    /\ fs[ModelFile("yield")] = "ok"
    /\ fs[ModelFile("yield_increase")] = "missing"
    /\ last.ret.value.fertilizer.nitrogen = 10000
    /\ last.ret.value.yieldPrediction.confidence = 7000

\* C8: litersPerAcre of every record predict_irrigation returns is an integer
\* of at least 100, whatever the regressor answers and in the fallback case.
C8_IrrigationFloor ==
    last.op = "predict_irrigation" =>
        /\ last.ret.litersPerAcre >= 10000
        /\ last.ret.litersPerAcre % 100 = 0

\* the regressor answered -50 and the record says 100
C8_Witness ==
    /\ last.op = "predict_irrigation"
    /\ last.caught = "none"
    /\ OutOf("irrigation") = Fin(-5000)
    /\ last.ret.litersPerAcre = 10000

\* C9: nitrogen, phosphorus and potassium of every record predict_fertilizer
\* returns are integers of at least 0.
C9_FertilizerFloor ==
    last.op = "predict_fertilizer" =>
        \A v \in {last.ret.nitrogen, last.ret.phosphorus, last.ret.potassium} :
            v >= 0 /\ v % 100 = 0

\* the nitrogen regressor answered -10 and the record says 0
C9_Witness ==
    /\ last.op = "predict_fertilizer"
    /\ last.caught = "none"
    /\ OutOf("nitrogen_fertilizer") = Fin(-1000)
    /\ last.ret.nitrogen = 0

\* C10: yieldIncrease of every record predict_yield returns lies in [0, 50]:
\* a finite answer is clamped to [0, 50] and then rounded, the fallback is 15.
C10_IncreaseRange ==
    last.op = "predict_yield" =>
        /\ 0 <= last.ret.yieldIncrease /\ last.ret.yieldIncrease <= 5000
        /\ last.caught # "none" => last.ret.yieldIncrease = 1500
        /\ (last.caught = "none" /\ IsFinite(OutOf("yield_increase"))) =>
             LET x == OutOf("yield_increase").v
                 clamped == IF x < 0 THEN 0 ELSE IF x > 5000 THEN 5000 ELSE x
             IN  last.ret.yieldIncrease = RoundHalfEven(clamped, 100)

\* the regressor answered 60 and the record says 50
C10_Witness ==
    /\ last.op = "predict_yield"
    /\ last.caught = "none"
    /\ OutOf("yield_increase") = Fin(6000)
    /\ last.ret.yieldIncrease = 5000

\* C11: confidence of every record predict_yield returns lies in [70, 98]: it
\* is 70 in the fallback record and 85 plus the bonuses that apply (5, 3, 4)
\* in a record of the try branch.
C11_ConfidenceRange ==
    last.op = "predict_yield" =>
        /\ 7000 <= last.ret.confidence /\ last.ret.confidence <= 9800
        /\ last.caught # "none" => last.ret.confidence = 7000
        /\ last.caught = "none" => last.ret.confidence \in {8500 + b : b \in {0, 300, 400, 500, 700, 800, 900, 1200}}

\* no bonus applies and the record says 85; every bonus would give 97
C11_Witness ==
    /\ last.op = "predict_yield"
    /\ last.caught = "none"
    /\ last.input = StressedInput
    /\ last.ret.confidence = 8500

\* C12: the crop encoding never raises: a cropType of the engine's crop list
\* is encoded as its 0-based position in the list, any other cropType as 0.
C12_CropEncoding ==
    (last.op = "_prepare_features" /\ WellFormed(last.input)) =>
        /\ last.caught = "none"
        /\ last.ret[14].col = "crop_type_encoded"
        /\ LET crops == label_encoders.crop_type
               code == last.ret[14].num
           IN  IF \E i \in 1..Len(crops) : crops[i] = last.input.cropType
               THEN /\ code % 100 = 0
                    /\ code \div 100 + 1 \in 1..Len(crops)
                    /\ crops[code \div 100 + 1] = last.input.cropType
               ELSE code = 0

\* groundnut is crop 10 of the default list and unknown to the trained list
C12_Witness ==
    /\ last.op = "_prepare_features"
    /\ last.caught = "none"
    /\ last.input = GroundnutInput
    /\ label_encoders.crop_type = TrainedCrops
    /\ last.ret[14].num = 0

\* the last two calls were predict_all calls that returned
TwoCalls ==
    /\ last.op = "predict_all"
    /\ last.prev.op = "predict_all"
    /\ last.ret.status = "returned"
    /\ last.prev.ret.status = "returned"

\* ... with the same input, the same random draws for the features and the
\* same regressors
SameCall ==
    /\ last.prev.input = last.input
    /\ last.prev.rnds = last.rnds
    /\ last.prev.regressor = last.regressor

AsFirstCall ==
    LET scl == LoadScalersOf(fs)
        le == [crop_type |-> LoadMetadataOf(fs)[2].crop_type]
    IN  CASE last.op = "predict_irrigation" ->
               predict_irrigation(last.input, fs, scl, le, last.rnd, last.oracle).ret
          [] last.op = "predict_fertilizer" ->
               predict_fertilizer(last.input, fs, scl, le, last.rnd, last.oracle).ret
          [] last.op = "predict_yield" ->
               predict_yield(last.input, fs, scl, le, last.rnd, last.oracle).ret
          [] last.op = "predict_all" ->
               predict_all(last.input, fs, scl, le, last.rnd, last.oracle, last.tip).ret

\* C14: no call of predict_irrigation, predict_fertilizer, predict_yield or
\* predict_all, in any order and number, changes fallback_mode, metadata,
\* models, scalers or label_encoders or writes to the artifact directory, and
\* every call returns what it returns as the first call on the engine.
C14_Frame ==
    /\ [][engine' = engine /\ fs' = fs]_vars
    /\ [](last.op # "none" => last.ret = AsFirstCall)

\* a predict_all call after other calls have read the irrigation regressor
C14_Witness ==
    /\ last.op = "predict_all"
    /\ last.ret.status = "returned"
    /\ reads[ModelFile("irrigation")] = 2
    /\ reads[ModelFile("yield")] = 1
    /\ models = {}
    /\ last.ret = AsFirstCall

\* the predictors the last call ran (1 irrigation, 2 fertilizer, 3 yield),
\* what each caught and what each returned
LastPredictors ==
    CASE last.op = "predict_irrigation" -> {1}
      [] last.op = "predict_fertilizer" -> {2}
      [] last.op = "predict_yield" -> {3}
      [] last.op = "predict_all" -> IF last.ret.status = "returned" THEN 1..3 ELSE {}
      [] OTHER -> {}

LastCaught(p) == IF last.op = "predict_all" THEN last.caught[p] ELSE last.caught

LastRecord(p) == IF last.op = "predict_all" THEN RecordOf(p) ELSE last.ret

\* the scaler a predictor resolves for the regressor of target t
ScalerFor(t) ==
    CASE t = "irrigation" -> "irrigation"
      [] t \in TargetsOf(2) -> "nitrogen_fertilizer"
      [] t \in TargetsOf(3) -> "yield"

\* C15: a regressor is invoked with the scaled vector exactly when the scaler
\* its predictor resolves (irrigation, nitrogen_fertilizer for N, P and K,
\* yield) is loaded, and a predictor whose regressors load returns a
\* model-derived record whether or not that scaler is loaded.
C15_ScalerOptional ==
    /\ \A i \in 1..Len(last.invoked) :
         last.invoked[i].scaled = (ScalerFor(last.invoked[i].target) \in scalers)
    /\ \A p \in LastPredictors :
         (FeatureKeysPresent(last.input) /\ FilesOk(RegressorFilesOf(p))) =>
             /\ LastCaught(p) = "none"
             /\ LastRecord(p) # FallbackOf(p)
             /\ \A t \in TargetsOf(p) : Answered(t)

\* the phosphorus scaler is there and the nitrogen scaler is not: N, P and K
\* come from the unscaled vector
C15_Witness ==
    /\ last.op = "predict_fertilizer"
    /\ last.caught = "none"
    /\ "nitrogen_fertilizer" \notin scalers
    /\ "phosphorus_fertilizer" \in scalers
    /\ fs[ScalerFile("irrigation")] = "corrupt"
    /\ Len(last.invoked) = 3
    /\ \A i \in 1..3 : ~ last.invoked[i].scaled
    /\ last.ret.nitrogen = H(160)

\* C16: the construction never raises because of the metadata file: with the
\* file missing or unreadable fallback_mode is true and the crop list is the
\* default list of 12 crops, with the file loaded fallback_mode is false and
\* the crop list is the one of the metadata.
C16_MetadataTolerated ==
    last.op = "__init__" =>
        /\ last.ret.status = "returned"
        /\ IF fs[MetadataFile] \in {"missing", "corrupt"}
           THEN /\ fallback_mode
                /\ label_encoders.crop_type
                     = <<"rice", "wheat", "maize", "cotton", "sugarcane", "tomato",
                         "potato", "soybean", "barley", "sorghum", "groundnut",
                         "mustard">>
           ELSE /\ ~ fallback_mode
                /\ label_encoders.crop_type = metadata.crop_type

\* C17: in every record of the try branch of predict_irrigation method and
\* frequency follow from the litersPerAcre of the record: above 2000 Sprinkler
\* System and Daily, from 1000 to 2000 Drip Irrigation and Every 2-3 days,
\* below 1000 Drip Irrigation and Weekly; efficiency is 90 for drip, else 75.
C17_CategoriesFromLiters ==
    (last.op = "predict_irrigation" /\ last.caught = "none") =>
        LET liters == last.ret.litersPerAcre
        IN  /\ last.ret.method
                 = IF liters > 200000 THEN "Sprinkler System" ELSE "Drip Irrigation"
            /\ last.ret.frequency
                 = IF liters > 200000 THEN "Daily"
                   ELSE IF liters >= 100000 THEN "Every 2-3 days"
                   ELSE "Weekly"
            /\ last.ret.efficiency
                 = IF last.ret.method = "Drip Irrigation" THEN 9000 ELSE 7500

\* C18: overallRisk follows from the number of triggers that hold on the
\* returned records (litersPerAcre > 2000, nitrogen > 150, confidence < 80):
\* none gives Low, one or two give Medium, three give High.
C18_OverallRisk ==
    ReturnedAll =>
        LET v == last.ret.value
            triggers ==
                {t \in {"water", "nitrogen", "confidence"} :
                    \/ t = "water" /\ v.irrigation.litersPerAcre > 200000
                    \/ t = "nitrogen" /\ v.fertilizer.nitrogen > 15000
                    \/ t = "confidence" /\ v.yieldPrediction.confidence < 8000}
        IN  v.riskAssessment.overallRisk
              = CASE Cardinality(triggers) = 0 -> "Low"
                  [] Cardinality(triggers) \in {1, 2} -> "Medium"
                  [] Cardinality(triggers) = 3 -> "High"

\* two triggers (water and nitrogen) and a confident yield record: Medium
C18_Witness ==
    /\ ReturnedAll
    /\ last.ret.value.irrigation.litersPerAcre = 240000
    /\ last.ret.value.fertilizer.nitrogen = 16000
    /\ last.ret.value.yieldPrediction.confidence = 9400
    /\ last.ret.value.riskAssessment.overallRisk = "Medium"

\* the sum of nitrogen, phosphorus and potassium of the returned fertilizer record
TotalNPK ==
    last.ret.value.fertilizer.nitrogen + last.ret.value.fertilizer.phosphorus
    + last.ret.value.fertilizer.potassium

\* y is x / d cut to [0, 100], in hundredths
IsClampedQuotient(y, x, d) ==
    IF x <= 0 THEN y = 0
    ELSE IF x >= 10000 * d THEN y = 10000
    ELSE y * d = x

\* C19: in every result of predict_all waterStress is (litersPerAcre - 1000) / 20,
\* nutrientDeficiency is (N + P + K - 200) / 5 and climateRisk is
\* |temperature - 25| * 2, each cut to [0, 100], computed from the returned
\* irrigation and fertilizer records and the input temperature.
C19_RiskScores ==
    ReturnedAll =>
        LET risk == last.ret.value.riskAssessment
            away == IF last.input.weather.temperature >= 2500
                    THEN last.input.weather.temperature - 2500
                    ELSE 2500 - last.input.weather.temperature
        IN  /\ IsClampedQuotient(risk.waterStress,
                                 last.ret.value.irrigation.litersPerAcre - 100000, 20)
            /\ IsClampedQuotient(risk.nutrientDeficiency, TotalNPK - 20000, 5)
            /\ IsClampedQuotient(risk.climateRisk, 2 * away, 1)
            /\ \A score \in {risk.waterStress, risk.nutrientDeficiency, risk.climateRisk} :
                 0 <= score /\ score <= 10000

\* 3500 l/acre, 790 kg and -30 degrees: all three scores are cut to 100
C19_Witness ==
    /\ ReturnedAll
    /\ last.ret.value.irrigation.litersPerAcre = 350000
    /\ TotalNPK = 79000
    /\ last.input.weather.temperature = -3000
    /\ last.ret.value.riskAssessment.waterStress = 10000
    /\ last.ret.value.riskAssessment.nutrientDeficiency = 10000
    /\ last.ret.value.riskAssessment.climateRisk = 10000

\* C20: in every result of predict_all costReduction is the water saving (20
\* for Drip Irrigation, else 5) plus the fertilizer saving (15 for N + P + K
\* below 200, else 5), so one of 10, 20, 25, 35, and profitIncrease is
\* max(0, yieldIncrease * 0.8).
C20_EconomicImpact ==
    ReturnedAll =>
        LET econ == last.ret.value.economicImpact
            waterSaving ==
                IF last.ret.value.irrigation.method = "Drip Irrigation" THEN 2000 ELSE 500
            fertilizerSaving == IF TotalNPK < 20000 THEN 1500 ELSE 500
            inc == last.ret.value.yieldPrediction.yieldIncrease
        IN  /\ econ.costReduction = waterSaving + fertilizerSaving
            /\ econ.costReduction \in {1000, 2000, 2500, 3500}
            /\ IF inc > 0 THEN 10 * econ.profitIncrease = 8 * inc
               ELSE econ.profitIncrease = 0

\* sprinkler and a total of exactly 200 kg: 5 + 5, and 33 % more yield
C20_Witness ==
    /\ ReturnedAll
    /\ last.ret.value.irrigation.method = "Sprinkler System"
    /\ TotalNPK = 20000
    /\ last.ret.value.economicImpact.costReduction = 1000
    /\ last.ret.value.yieldPrediction.yieldIncrease = 3300
    /\ last.ret.value.economicImpact.profitIncrease = 2640

\* the last call was predict_yield and its try branch returned
YieldDerived == last.op = "predict_yield" /\ last.caught = "none"

\* C21: in every yield record of the try branch confidence is 85, plus 5 for
\* a pH strictly between 6.0 and 7.0, plus 3 for organic matter above 3, plus
\* 4 for a rainfall from 50 to 200 inclusive, and at most 98.
C21_ConfidenceRule ==
    YieldDerived =>
        LET soil == last.input.soil
            rain == last.input.weather.rainfall
            sum == 8500
                   + (IF 600 < soil.ph /\ soil.ph < 700 THEN 500 ELSE 0)
                   + (IF soil.organicMatter > 300 THEN 300 ELSE 0)
                   + (IF 5000 <= rain /\ rain <= 20000 THEN 400 ELSE 0)
        IN  last.ret.confidence = IF sum > 9800 THEN 9800 ELSE sum

\* pH 7.0 and organic matter 3 earn nothing, rainfall 200 earns 4
C21_Witness ==
    /\ YieldDerived
    /\ last.input.soil.ph = 700
    /\ last.input.soil.organicMatter = 300
    /\ last.input.weather.rainfall = 20000
    /\ last.ret.confidence = 8900

\* the factors that apply to the last input, in the order of the record
FactorsOf(input_data) ==
    LET Applies(i) ==
            CASE i = 1 -> input_data.soil.ph < 550 \/ input_data.soil.ph > 800
              [] i = 2 -> input_data.soil.organicMatter < 200
              [] i = 3 -> input_data.weather.temperature < 1000
                          \/ input_data.weather.temperature > 3500
              [] i = 4 -> input_data.weather.rainfall < 5000
        names == <<"Soil pH imbalance", "Low organic matter", "Temperature stress",
                   "Water stress">>
    IN  [i \in {j \in 1..4 : Applies(j)} |-> names[i]]

\* C22: in every yield record of the try branch limitingFactors holds, in this
\* order, Soil pH imbalance iff pH < 5.5 or pH > 8.0, Low organic matter iff
\* organic matter < 2, Temperature stress iff temperature < 10 or > 35, Water
\* stress iff rainfall < 50; with none of them it is the single sentinel.
C22_LimitingFactors ==
    YieldDerived =>
        LET factors == last.ret.limitingFactors
            expected == FactorsOf(last.input)
            sentinel == "No major limiting factors detected"
        IN  /\ Len(factors) >= 1
            /\ IF DOMAIN expected = {} THEN factors = <<sentinel>>
               ELSE /\ Len(factors) = Cardinality(DOMAIN expected)
                    /\ \A i \in DOMAIN expected :
                         \E k \in 1..Len(factors) :
                            /\ factors[k] = expected[i]
                            /\ k = Cardinality({j \in DOMAIN expected : j <= i})
                    /\ \A k \in 1..Len(factors) : factors[k] # sentinel

\* pH 8.01 and rainfall 49.99 with organic matter 2 and 35 degrees: the two
\* factors, pH first
C22_Witness ==
    /\ YieldDerived
    /\ last.input.soil.ph = 801
    /\ last.input.soil.organicMatter = 200
    /\ last.input.weather.temperature = 3500
    /\ last.input.weather.rainfall = 4999
    /\ last.ret.limitingFactors = <<"Soil pH imbalance", "Water stress">>

\* C23: overallRisk is High only when the yield record is the fallback record
\* (confidence 70) while the irrigation and fertilizer records come from
\* their regressors with litersPerAcre > 2000 and nitrogen > 150; a yield
\* record of the try branch has a confidence from 85 to 97 and goes with
\* Low or Medium.
C23_HighNeedsFallback ==
    ReturnedAll =>
        LET v == last.ret.value
        IN  /\ v.riskAssessment.overallRisk = "High" =>
                 /\ last.caught[3] # "none"
                 /\ v.yieldPrediction.confidence = 7000
                 /\ v.yieldPrediction.limitingFactors = <<"Model prediction unavailable">>
                 /\ last.caught[1] = "none" /\ last.caught[2] = "none"
                 /\ v.irrigation.litersPerAcre > 200000
                 /\ v.fertilizer.nitrogen > 15000
            /\ last.caught[3] = "none" =>
                 /\ 8500 <= v.yieldPrediction.confidence
                 /\ v.yieldPrediction.confidence <= 9700
                 /\ v.riskAssessment.overallRisk \in {"Low", "Medium"}

\* the yield regressors fail, the others ask for 2400 l/acre and 160 kg: High
C23_Witness ==
    /\ ReturnedAll
    /\ last.ret.value.riskAssessment.overallRisk = "High"
    /\ last.ret.value.irrigation.litersPerAcre = 240000
    /\ last.ret.value.fertilizer.nitrogen = 16000
    /\ last.caught = <<"none", "none", "PredictError">>

\* the engine was constructed on a directory without metadata and scaler
BuiltOnEmpty == reads[MetadataFile] = 0 /\ reads[ScalerFile("irrigation")] = 0

HasOwnKeys(input_data) ==
    /\ HasKeys(input_data, {"cropType", "weather"})
    /\ HasKeys(input_data.weather, {"temperature"})

\* C25: an input with cropType and weather.temperature that lacks the soil
\* section, a soil field or another weather field gets a complete result
\* whose three records are the fallback records; an input without cropType,
\* the weather section or weather.temperature makes predict_all raise, and
\* without cropType no predictor is invoked before.
C25_AsymmetricTolerance ==
    last.op = "predict_all" =>
        /\ (HasOwnKeys(last.input) /\ ~ FeatureKeysPresent(last.input)) =>
              /\ last.ret.status = "returned"
              /\ DOMAIN last.ret.value = ResultFields
              /\ last.ret.value.irrigation = IrrigationFallback
              /\ last.ret.value.fertilizer = FertilizerFallback
              /\ last.ret.value.yieldPrediction = YieldFallback
              /\ last.caught = <<"KeyError", "KeyError", "KeyError">>
              /\ last.loaded = <<>> /\ last.invoked = <<>>
        /\ ~ HasOwnKeys(last.input) =>
              /\ last.ret = RaisedKeyError
              /\ last.caught = IF HasKeys(last.input, {"cropType"})
                               THEN <<"KeyError", "KeyError", "KeyError">> ELSE <<>>
              /\ last.loaded = <<>> /\ last.invoked = <<>>
        /\ HasOwnKeys(last.input) => last.ret.status = "returned"

\* the input without soil section was answered on a trained directory
C25_Witness ==
    /\ last.op = "predict_all"
    /\ last.input = Without(sample_input, "soil")
    /\ last.ret.status = "returned"
    /\ last.ret.value.irrigation = IrrigationFallback
    /\ \A f \in Files : fs[f] = "ok"

\* no regressor file of the directory loads
NoRegressor == \A f \in ModelFiles : fs[f] # "ok"

\* the tips np.random.choice draws from
Tips == {sustainability_tips[i] : i \in 1..Len(sustainability_tips)}

\* C26: without a loadable regressor the result of predict_all is a function
\* of the temperature and of the drawn tip alone: the three fallback
\* records, overallRisk Medium, waterStress 0, nutrientDeficiency 2,
\* costReduction 25, profitIncrease 12, and climateRisk from the temperature.
C26_NoRegressorResult ==
    (ReturnedAll /\ NoRegressor) =>
        LET v == last.ret.value
            away == Abs(last.input.weather.temperature - 2500)
        IN  /\ v.irrigation = IrrigationFallback
            /\ v.fertilizer = FertilizerFallback
            /\ v.yieldPrediction = YieldFallback
            /\ v.riskAssessment =
                  [waterStress |-> 0, nutrientDeficiency |-> 200,
                   climateRisk |-> IF 2 * away > 10000 THEN 10000 ELSE 2 * away,
                   overallRisk |-> "Medium"]
            /\ v.economicImpact = [costReduction |-> 2500, profitIncrease |-> 1200]
            /\ v.sustainabilityTip \in Tips
            /\ DOMAIN v = ResultFields

\* a hot, dry wheat field on a directory without regressors: climateRisk 30,
\* everything else as for any other input
C26_Witness ==
    /\ ReturnedAll /\ NoRegressor
    /\ last.input = StressedInput
    /\ last.ret.value.riskAssessment.climateRisk = 3000
    /\ last.ret.value.riskAssessment.nutrientDeficiency = 200
    /\ last.ret.value.economicImpact.profitIncrease = 1200
    /\ last.ret.value.sustainabilityTip = sustainability_tips[8]

\* the body is an object whose member inputs is a list
HasInputsList(data) ==
    /\ data.type = "object"
    /\ "inputs" \in DOMAIN data.members
    /\ data.members.inputs.type = "list"

\* the request was answered with one entry per input, in input order, an
\* error entry exactly for the inputs on which predict_all raises
OneEntryPerInput ==
    LET items == last.input.members.inputs.items
    IN  /\ last.ret.code = 200
        /\ last.invoked = items
        /\ Len(last.ret.predictions) = Len(items)
        /\ last.ret.total_processed = Len(items)
        /\ \A i \in 1..Len(items) :
              /\ last.ret.predictions[i].input = items[i]
              /\ last.ret.predictions[i].status =
                    IF HasOwnKeys(items[i]) THEN "success" ELSE "error"
              /\ HasOwnKeys(items[i]) =>
                    DOMAIN last.ret.predictions[i].predictions = ResultFields

\* C27: a batch request with an inputs list gets one entry per input, in
\* input order, with status error for the inputs on which predict_all
\* raises and total_processed equal to the number of inputs; a request
\* whose body has no inputs list is rejected with status 400 and no
\* prediction is run.
C27_BatchIsolated ==
    last.op = "batch_predict" =>
        IF HasInputsList(last.input) THEN OneEntryPerInput
        ELSE /\ last.ret.code = 400
             /\ last.invoked = <<>> /\ last.loaded = <<>>

====
